---- MODULE Spec2Model ----
(***************************************************************************)
(* Nix AI: the response engine of src/main.py (class NixAICore) and the    *)
(* parts of the Telegram front end (class NixAITelegramBot) that change    *)
(* the engine's state.                                                     *)
(*                                                                         *)
(* Text is a sequence of Unicode code points, so that lower-casing,        *)
(* substring search, tokenising and ordering are computed as Python does.  *)
(* A message without text and the empty string are both the empty text:    *)
(* the engine only ever tests them for truth.                              *)
(***************************************************************************)
EXTENDS Integers, Sequences, FiniteSets, TLC

VARIABLES
    knowledge,       \* NixAICore.knowledge: the in-memory document
    disk,            \* the content of knowledge.json
    auto_correction, \* NixAICore.learning_modes['auto_correction']
    weather_cache,   \* NixAICore.weather_cache: city key -> (time, text)
    api_key,         \* whether weather_config.api_key is non-empty
    now,             \* datetime.now(), in ticks of ten minutes
    followup,        \* per user: the pending question of the user's last turn
    probe,           \* a question table and an utterance put to the matcher
    last,            \* the last call of process_message: its input, what it
                     \* returned and the document it started from
    requests,        \* per caller: the call of get_weather it has in flight
    weather_log,     \* the call of get_weather that returned last
    tasks,           \* per task of the dispatcher: the turn it runs and how far
    running,         \* the task the event loop is running, 0 between tasks
    serial,          \* the document the finished turns give when run one by one
    file,            \* knowledge.json: absent, unreadable, or a document with
                     \* its top-level keys (its content is disk)
    present,         \* the top-level keys the document in memory has
    phase,           \* "start" before _load_knowledge ran, "serving" after
    store_log,       \* what the load found, the turns taken since, what the
                     \* last turn raised, how the last two writes ended
    fsm,             \* per chat: the state and the data the dispatcher's
                     \* MemoryStorage keeps (FSMContext)
    handlers,        \* per task of the dispatcher: the handler suspended in it
    updates,         \* how many updates the dispatcher has taken
    consumed,        \* per chat: the text messages routed to a state handler
                     \* since a follow-up state was last set
    dialog_log       \* the last step of the front end

weather_vars == <<requests, weather_log>>
task_vars == <<tasks, running, serial>>
store_vars == <<file, present, phase, store_log>>
dialog_vars == <<fsm, handlers, updates, consumed, dialog_log>>

\* The state of the parts that run beside the turns of the conversation.
side_vars == <<weather_vars, task_vars, store_vars, dialog_vars>>

vars == <<knowledge, disk, auto_correction, weather_cache, api_key, now, followup,
          probe, last, side_vars>>

----------------------------------------------------------------------------
(* Bounds of the model. *)

MaxMessages == 3
MaxQna == 2
MaxTime == 3
MaxTasks == 2
MaxUpdates == 3

----------------------------------------------------------------------------
(* Text: str.lower, the in operator, re.findall(r'\b\w+\b'), str.strip. *)

Empty == <<>>

\* str.lower on one character: A-Z, the Cyrillic capitals and the capital IO.
LowerChar(c) ==
    IF (c >= 65 /\ c <= 90) \/ (c >= 1040 /\ c <= 1071) THEN c + 32
    ELSE IF c = 1025 THEN 1105
    ELSE c

lower(s) == [i \in 1..Len(s) |-> LowerChar(s[i])]

\* needle in hay
IsSubstring(needle, hay) ==
    \E i \in 0..(Len(hay) - Len(needle)) :
        \A j \in 1..Len(needle) : hay[i + j] = needle[j]

\* The least start (0-based) of needle in hay; -1 when there is none (str.find).
Find(needle, hay) ==
    IF IsSubstring(needle, hay)
    THEN CHOOSE i \in 0..(Len(hay) - Len(needle)) :
            /\ \A j \in 1..Len(needle) : hay[i + j] = needle[j]
            /\ \A k \in 0..(i - 1) : \E j \in 1..Len(needle) : hay[k + j] # needle[j]
    ELSE -1

\* \w: a letter, a digit or the underscore.
IsWordChar(c) ==
    \/ c >= 48 /\ c <= 57
    \/ c >= 65 /\ c <= 90
    \/ c = 95
    \/ c >= 97 /\ c <= 122
    \/ c = 1025
    \/ c >= 1040 /\ c <= 1103
    \/ c = 1105

\* \s
IsSpace(c) == c \in {9, 10, 11, 12, 13, 32}

RECURSIVE WordsFrom(_, _, _)
WordsFrom(s, i, cur) ==
    IF i > Len(s) THEN (IF cur = <<>> THEN <<>> ELSE <<cur>>)
    ELSE IF IsWordChar(s[i]) THEN WordsFrom(s, i + 1, Append(cur, s[i]))
    ELSE (IF cur = <<>> THEN <<>> ELSE <<cur>>) \o WordsFrom(s, i + 1, <<>>)

\* re.findall(r'\b\w+\b', s): the maximal runs of word characters, in order.
findall_words(s) == WordsFrom(s, 1, <<>>)

RECURSIVE lstrip(_)
lstrip(s) == IF s # <<>> /\ IsSpace(Head(s)) THEN lstrip(Tail(s)) ELSE s

RECURSIVE rstrip(_)
rstrip(s) ==
    IF s # <<>> /\ IsSpace(s[Len(s)]) THEN rstrip(SubSeq(s, 1, Len(s) - 1)) ELSE s

strip(s) == rstrip(lstrip(s))

StartsWith(s, p) == Len(s) >= Len(p) /\ SubSeq(s, 1, Len(p)) = p

Range(f) == {f[i] : i \in DOMAIN f}

----------------------------------------------------------------------------
(* The string literals of the source. *)

\* src/main.py:95-114: the rule table, in registration order. Each pattern is an
\* alternation of literal strings; the alternatives are listed as code-point sequences.
rules ==
  <<
    [handler |-> "_greet", alts |-> <<   \* привет|здравствуй|hello|hi|хай
        <<1087, 1088, 1080, 1074, 1077, 1090>>,
        <<1079, 1076, 1088, 1072, 1074, 1089, 1090, 1074, 1091, 1081>>,
        <<104, 101, 108, 108, 111>>,
        <<104, 105>>,
        <<1093, 1072, 1081>>>>],
    [handler |-> "_goodbye", alts |-> <<   \* пока|прощай|до свидания|bye
        <<1087, 1086, 1082, 1072>>,
        <<1087, 1088, 1086, 1097, 1072, 1081>>,
        <<1076, 1086, 32, 1089, 1074, 1080, 1076, 1072, 1085, 1080, 1103>>,
        <<98, 121, 101>>>>],
    [handler |-> "_how_are_you", alts |-> <<   \* как дела|как ты|how are you
        <<1082, 1072, 1082, 32, 1076, 1077, 1083, 1072>>,
        <<1082, 1072, 1082, 32, 1090, 1099>>,
        <<104, 111, 119, 32, 97, 114, 101, 32, 121, 111, 117>>>>],
    [handler |-> "_thank_you", alts |-> <<   \* спасибо|благодарю|thanks
        <<1089, 1087, 1072, 1089, 1080, 1073, 1086>>,
        <<1073, 1083, 1072, 1075, 1086, 1076, 1072, 1088, 1102>>,
        <<116, 104, 97, 110, 107, 115>>>>],
    [handler |-> "_about_me", alts |-> <<   \* твое имя|тебя зовут|who are you
        <<1090, 1074, 1086, 1077, 32, 1080, 1084, 1103>>,
        <<1090, 1077, 1073, 1103, 32, 1079, 1086, 1074, 1091, 1090>>,
        <<119, 104, 111, 32, 97, 114, 101, 32, 121, 111, 117>>>>],
    [handler |-> "_about_creator", alts |-> <<   \* создатель|кто создал|who created
        <<1089, 1086, 1079, 1076, 1072, 1090, 1077, 1083, 1100>>,
        <<1082, 1090, 1086, 32, 1089, 1086, 1079, 1076, 1072, 1083>>,
        <<119, 104, 111, 32, 99, 114, 101, 97, 116, 101, 100>>>>],
    [handler |-> "_help", alts |-> <<   \* помощь|help|что ты умеешь
        <<1087, 1086, 1084, 1086, 1097, 1100>>,
        <<104, 101, 108, 112>>,
        <<1095, 1090, 1086, 32, 1090, 1099, 32, 1091, 1084, 1077, 1077, 1096, 1100>>>>],
    [handler |-> "_time", alts |-> <<   \* время|который час|time
        <<1074, 1088, 1077, 1084, 1103>>,
        <<1082, 1086, 1090, 1086, 1088, 1099, 1081, 32, 1095, 1072, 1089>>,
        <<116, 105, 109, 101>>>>],
    [handler |-> "_date", alts |-> <<   \* дата|число|какое число
        <<1076, 1072, 1090, 1072>>,
        <<1095, 1080, 1089, 1083, 1086>>,
        <<1082, 1072, 1082, 1086, 1077, 32, 1095, 1080, 1089, 1083, 1086>>>>],
    [handler |-> "_remember_info", alts |-> <<   \* запомни|remember that
        <<1079, 1072, 1087, 1086, 1084, 1085, 1080>>,
        <<114, 101, 109, 101, 109, 98, 101, 114, 32, 116, 104, 97, 116>>>>],
    [handler |-> "_recall_info", alts |-> <<   \* что ты знаешь|расскажи о|что знаешь
        <<1095, 1090, 1086, 32, 1090, 1099, 32, 1079, 1085, 1072, 1077, 1096, 1100>>,
        <<1088, 1072, 1089, 1089, 1082, 1072, 1078, 1080, 32, 1086>>,
        <<1095, 1090, 1086, 32, 1079, 1085, 1072, 1077, 1096, 1100>>>>],
    [handler |-> "_clear_memory", alts |-> <<   \* очисти память|забудь все
        <<1086, 1095, 1080, 1089, 1090, 1080, 32, 1087, 1072, 1084, 1103, 1090, 1100>>,
        <<1079, 1072, 1073, 1091, 1076, 1100, 32, 1074, 1089, 1077>>>>],
    [handler |-> "_how_i_learn", alts |-> <<   \* как учишься|как обучаешься
        <<1082, 1072, 1082, 32, 1091, 1095, 1080, 1096, 1100, 1089, 1103>>,
        <<1082, 1072, 1082, 32, 1086, 1073, 1091, 1095, 1072, 1077, 1096, 1100, 1089, 1103>>>>],
    [handler |-> "_weather_handler", alts |-> <<   \* погода|weather|прогноз
        <<1087, 1086, 1075, 1086, 1076, 1072>>,
        <<119, 101, 97, 116, 104, 101, 114>>,
        <<1087, 1088, 1086, 1075, 1085, 1086, 1079>>>>],
    [handler |-> "_stats_handler", alts |-> <<   \* статистика|stats|моя статистика
        <<1089, 1090, 1072, 1090, 1080, 1089, 1090, 1080, 1082, 1072>>,
        <<115, 116, 97, 116, 115>>,
        <<1084, 1086, 1103, 32, 1089, 1090, 1072, 1090, 1080, 1089, 1090, 1080, 1082, 1072>>>>],
    [handler |-> "_currency_handler", alts |-> <<   \* курс валют|курс доллара|курс евро
        <<1082, 1091, 1088, 1089, 32, 1074, 1072, 1083, 1102, 1090>>,
        <<1082, 1091, 1088, 1089, 32, 1076, 1086, 1083, 1083, 1072, 1088, 1072>>,
        <<1082, 1091, 1088, 1089, 32, 1077, 1074, 1088, 1086>>>>],
    [handler |-> "_news_handler", alts |-> <<   \* новости|news|что нового
        <<1085, 1086, 1074, 1086, 1089, 1090, 1080>>,
        <<110, 101, 119, 115>>,
        <<1095, 1090, 1086, 32, 1085, 1086, 1074, 1086, 1075, 1086>>>>],
    [handler |-> "_joke_handler", alts |-> <<   \* анекдот|шутка|расскажи шутку
        <<1072, 1085, 1077, 1082, 1076, 1086, 1090>>,
        <<1096, 1091, 1090, 1082, 1072>>,
        <<1088, 1072, 1089, 1089, 1082, 1072, 1078, 1080, 32, 1096, 1091, 1090, 1082, 1091>>>>]
  >>

\* src/main.py:548-551: что, как, кто, где, когда, почему, зачем, это, этот, эта, эти, тот, та, те, свой, мои, твои, его, её, их, наш, ваш, весь, все, всё, какой, какая, какие, такой, такая
stop_words ==
  { <<1095, 1090, 1086>>,
    <<1082, 1072, 1082>>,
    <<1082, 1090, 1086>>,
    <<1075, 1076, 1077>>,
    <<1082, 1086, 1075, 1076, 1072>>,
    <<1087, 1086, 1095, 1077, 1084, 1091>>,
    <<1079, 1072, 1095, 1077, 1084>>,
    <<1101, 1090, 1086>>,
    <<1101, 1090, 1086, 1090>>,
    <<1101, 1090, 1072>>,
    <<1101, 1090, 1080>>,
    <<1090, 1086, 1090>>,
    <<1090, 1072>>,
    <<1090, 1077>>,
    <<1089, 1074, 1086, 1081>>,
    <<1084, 1086, 1080>>,
    <<1090, 1074, 1086, 1080>>,
    <<1077, 1075, 1086>>,
    <<1077, 1105>>,
    <<1080, 1093>>,
    <<1085, 1072, 1096>>,
    <<1074, 1072, 1096>>,
    <<1074, 1077, 1089, 1100>>,
    <<1074, 1089, 1077>>,
    <<1074, 1089, 1105>>,
    <<1082, 1072, 1082, 1086, 1081>>,
    <<1082, 1072, 1082, 1072, 1103>>,
    <<1082, 1072, 1082, 1080, 1077>>,
    <<1090, 1072, 1082, 1086, 1081>>,
    <<1090, 1072, 1082, 1072, 1103>> }

\* src/main.py:170-175: the seed questions and answers, in insertion order.
seed_qna ==
  <<
    \* что такое python
    \* -> Python — это язык программирования
    [q |-> <<1095, 1090, 1086, 32, 1090, 1072, 1082, 1086, 1077, 32, 112, 121, 116, 104, 111, 110>>,
     a |-> <<80, 121, 116, 104, 111, 110, 32, 8212, 32, 1101, 1090, 1086, 32, 1103, 1079, 1099, 1082, 32, 1087, 1088, 1086, 1075, 1088, 1072, 1084, 1084, 1080, 1088, 1086, 1074, 1072, 1085, 1080, 1103>>],
    \* что такое искусственный интеллект
    \* -> ИИ — это система, имитирующая человеческий интеллект
    [q |-> <<1095, 1090, 1086, 32, 1090, 1072, 1082, 1086, 1077, 32, 1080, 1089, 1082, 1091, 1089, 1089, 1090, 1074, 1077, 1085, 1085, 1099, 1081, 32, 1080, 1085, 1090, 1077, 1083, 1083, 1077, 1082, 1090>>,
     a |-> <<1048, 1048, 32, 8212, 32, 1101, 1090, 1086, 32, 1089, 1080, 1089, 1090, 1077, 1084, 1072, 44, 32, 1080, 1084, 1080, 1090, 1080, 1088, 1091, 1102, 1097, 1072, 1103, 32, 1095, 1077, 1083, 1086, 1074, 1077, 1095, 1077, 1089, 1082, 1080, 1081, 32, 1080, 1085, 1090, 1077, 1083, 1083, 1077, 1082, 1090>>],
    \* как тебя зовут
    \* -> Меня зовут Nix AI
    [q |-> <<1082, 1072, 1082, 32, 1090, 1077, 1073, 1103, 32, 1079, 1086, 1074, 1091, 1090>>,
     a |-> <<1052, 1077, 1085, 1103, 32, 1079, 1086, 1074, 1091, 1090, 32, 78, 105, 120, 32, 65, 73>>],
    \* кто создал тебя
    \* -> Меня создал разработчик, который хочет сделать полезного ИИ
    [q |-> <<1082, 1090, 1086, 32, 1089, 1086, 1079, 1076, 1072, 1083, 32, 1090, 1077, 1073, 1103>>,
     a |-> <<1052, 1077, 1085, 1103, 32, 1089, 1086, 1079, 1076, 1072, 1083, 32, 1088, 1072, 1079, 1088, 1072, 1073, 1086, 1090, 1095, 1080, 1082, 44, 32, 1082, 1086, 1090, 1086, 1088, 1099, 1081, 32, 1093, 1086, 1095, 1077, 1090, 32, 1089, 1076, 1077, 1083, 1072, 1090, 1100, 32, 1087, 1086, 1083, 1077, 1079, 1085, 1086, 1075, 1086, 32, 1048, 1048>>]
  >>

kw_pogoda == <<1087, 1086, 1075, 1086, 1076, 1072>>   \* погода
kw_weather == <<119, 101, 97, 116, 104, 101, 114>>   \* weather
kw_prognoz == <<1087, 1088, 1086, 1075, 1085, 1086, 1079>>   \* прогноз
kw_zapomni == <<1079, 1072, 1087, 1086, 1084, 1085, 1080>>   \* запомни
kw_chto == <<1095, 1090, 1086>>   \* что
kw_comma == <<44>>   \* ,

U_privet == <<1055, 1088, 1080, 1074, 1077, 1090>>   \* "Привет"
U_help_time == <<72, 101, 108, 112, 32, 116, 105, 109, 101>>   \* "Help time"
U_kak_zovut == <<1050, 1072, 1082, 32, 1090, 1077, 1073, 1103, 32, 1079, 1086, 1074, 1091, 1090>>   \* "Как тебя зовут"
U_python_q == <<1063, 1090, 1086, 32, 1090, 1072, 1082, 1086, 1077, 32, 80, 121, 116, 104, 111, 110>>   \* "Что такое Python"
U_python == <<112, 121, 116, 104, 111, 110>>   \* "python"
U_intellekt == <<1080, 1085, 1090, 1077, 1083, 1083, 1077, 1082, 1090, 32, 1080, 1089, 1082, 1091, 1089, 1089, 1090, 1074, 1077, 1085, 1085, 1099, 1081>>   \* "интеллект искусственный"
U_pogoda == <<1087, 1086, 1075, 1086, 1076, 1072>>   \* "погода"
U_pogoda_city == <<1055, 1086, 1075, 1086, 1076, 1072, 32, 1052, 1086, 1089, 1082, 1074, 1072>>   \* "Погода Москва"
U_xyz == <<88, 121, 122, 32, 81, 113, 113>>   \* "Xyz Qqq"
U_kto == <<1050, 1090, 1086, 32, 1090, 1099>>   \* "Кто ты"
U_pylang == <<112, 121, 116, 104, 111, 110, 32, 1103, 1079, 1099, 1082>>   \* "python язык"
U_zapomni == <<1079, 1072, 1087, 1086, 1084, 1085, 1080, 32, 97, 98, 99>>   \* "запомни abc"
U_chto_znaesh == <<1095, 1090, 1086, 32, 1079, 1085, 1072, 1077, 1096, 1100>>   \* "что знаешь"
U_stat == <<1089, 1090, 1072, 1090, 1080, 1089, 1090, 1080, 1082, 1072>>   \* "статистика"
U_parizh == <<1055, 1072, 1088, 1080, 1078>>   \* "Париж"
U_abc_xyz == <<97, 98, 99, 32, 120, 121, 122, 32, 113, 113, 113>>   \* "abc xyz qqq"
U_qqq == <<81, 113, 113>>   \* "Qqq"
U_qxa == <<81, 113, 113, 32, 88, 121, 122, 32, 65, 98, 99>>   \* "Qqq Xyz Abc"
U_qxx == <<81, 113, 113, 32, 120, 121, 122, 32, 120, 121, 122>>   \* "Qqq xyz xyz"
U_blank == <<32, 32>>   \* "  "
U_moskva == <<1052, 1086, 1089, 1082, 1074, 1072>>   \* "Москва"

----------------------------------------------------------------------------
(* Program constants. *)

\* learning_modes['confidence_threshold'] = 0.3, as the fraction 3/10
confidence_threshold_num == 3
confidence_threshold_den == 10
\* fact[:50]
fact_key_len == 50
\* len(w) > 2
min_keyword_len == 2
\* len(common) >= 2, len(keywords) >= 2
min_common == 2

----------------------------------------------------------------------------
(* Inputs. *)

Users == {1, 2}

None == "<None>"

\* What Telegram reports of the sender: (username, first_name, last_name).
NoNames == [username |-> None, first_name |-> None, last_name |-> None]
AnnNames == [username |-> "ann", first_name |-> "Ann", last_name |-> ""]
NamesOf(user_id) == IF user_id = 1 THEN NoNames ELSE AnnNames

\* The utterances of ordinary turns: non-empty text.
Utterances ==
    { U_help_time, U_kak_zovut, U_python_q, U_pogoda, U_pogoda_city, U_xyz,
      U_pylang }

\* The pending questions a caller hands back with a correction reply.
Questions == { U_xyz, Empty }

\* The replies to a teach-me prompt: text, or a message without text.
Answers == { U_parizh, Empty }

\* Every text the engine meets within these inputs, and its lower-cased form.
Texts ==
    LET raw == Utterances \cup Answers \cup Questions
                  \cup {seed_qna[i].q : i \in 1..Len(seed_qna)}
                  \cup {U_privet, U_python, U_intellekt, U_kto, U_zapomni,
                        U_chto_znaesh, U_stat, U_abc_xyz, U_qqq, U_qxa, U_qxx, U_blank}
    IN  raw \cup {lower(t) : t \in raw}

Lookup(table, t) == (CHOOSE p \in table : p[1] = t)[2]

\* correction_data: None, {} or {"question": q}
NoContext == [kind |-> "None", question |-> Empty]
EmptyContext == [kind |-> "empty", question |-> Empty]
QuestionContext(q) == [kind |-> "question", question |-> q]

\* Python's truth value of correction_data, and correction_data.get("question")
ContextTruthy(cd) == cd.kind = "question"

----------------------------------------------------------------------------
(* RuleDispatcher: src/main.py:95-114 and the loop at 613-614. *)

\* re.search(pattern, text) for a pattern that is an alternation of literals
re_search(alts, text) == \E k \in 1..Len(alts) : IsSubstring(alts[k], text)

\* A dispatcher that lets the rule registered last answer.
last_rule_search(user_message) ==
    LET low == lower(user_message)
        hits == {i \in 1..Len(rules) : re_search(rules[i].alts, low)}
    IN  IF hits = {} THEN 0 ELSE CHOOSE i \in hits : \A j \in hits : i >= j

\* The first rule, in registration order, whose pattern is found in the
\* lower-cased message; 0 when no rule matches.
first_rule_search(user_message) ==
    LET low == lower(user_message)
        hits == {i \in 1..Len(rules) : re_search(rules[i].alts, low)}
    IN  IF hits = {} THEN 0 ELSE CHOOSE i \in hits : \A j \in hits : i <= j

\* first_rule_search, computed once for each text
first_rule_table == {<<t, first_rule_search(t)>> : t \in Texts}
first_rule(user_message) == Lookup(first_rule_table, user_message)

----------------------------------------------------------------------------
(* QnAMatcher: src/main.py:523-575. *)

extract_keywords(text) ==
    LET words == findall_words(lower(text))
        Keep(w) == w \notin stop_words /\ Len(w) > min_keyword_len
    IN  SelectSeq(words, Keep)

\* extract_keywords, computed once for each text
keywords_table == {<<t, extract_keywords(t)>> : t \in Texts}
_extract_keywords(text) == Lookup(keywords_table, text)

qna_has(qna, key) == \E i \in 1..Len(qna) : qna[i].q = key

qna_get(qna, key) == qna[CHOOSE i \in 1..Len(qna) : qna[i].q = key].a

\* A store that keeps the answer a question already has (dict.setdefault).
qna_setdefault(qna, key, value) ==
    IF qna_has(qna, key) THEN qna
    ELSE Append(qna, [q |-> key, a |-> value])

\* qna[key] = value on a dict: an existing key keeps its place.
qna_set(qna, key, value) ==
    IF qna_has(qna, key)
    THEN [i \in 1..Len(qna) |->
            IF qna[i].q = key THEN [q |-> key, a |-> value] ELSE qna[i]]
    ELSE Append(qna, [q |-> key, a |-> value])

NoMatch == [found |-> FALSE, answer |-> Empty]
Match(a) == [found |-> TRUE, answer |-> a]

Least(S) == CHOOSE i \in S : \A j \in S : i <= j

\* A matcher that tries the keyword overlap before the containment.
check_qna_keywords_first(qna, user_message) ==
    LET low == lower(user_message)
        partial == {i \in 1..Len(qna) :
                      IsSubstring(qna[i].q, low) \/ IsSubstring(low, qna[i].q)}
        keywords == Range(_extract_keywords(low))
        byword == {i \in 1..Len(qna) :
                      Cardinality(keywords \cap Range(_extract_keywords(qna[i].q)))
                          >= min_common}
    IN  IF qna_has(qna, low) THEN Match(qna_get(qna, low))
        ELSE IF byword # {} THEN Match(qna[Least(byword)].a)
        ELSE IF partial # {} THEN Match(qna[Least(partial)].a)
        ELSE NoMatch

\* The answer of the table to an utterance: found is FALSE for Python's None.
_check_qna_match(qna, user_message) ==
    LET low == lower(user_message)
        partial == {i \in 1..Len(qna) :
                      IsSubstring(qna[i].q, low) \/ IsSubstring(low, qna[i].q)}
        keywords == Range(_extract_keywords(low))
        byword == {i \in 1..Len(qna) :
                      Cardinality(keywords \cap Range(_extract_keywords(qna[i].q)))
                          >= min_common}
    IN  IF qna_has(qna, low) THEN Match(qna_get(qna, low))
        ELSE IF partial # {} THEN Match(qna[Least(partial)].a)
        ELSE IF byword # {} THEN Match(qna[Least(byword)].a)
        ELSE NoMatch

\* Fractions <<n, d>>, d > 0.
FracLess(a, b) == a[1] * b[2] < b[1] * a[2]
FracMax(a, b) == IF FracLess(a, b) THEN b ELSE a
IntMax(a, b) == IF a < b THEN b ELSE a

RECURSIVE best_match(_, _, _, _)
best_match(qna, i, keywords, best) ==
    IF i > Len(qna) THEN best
    ELSE LET question_keywords == _extract_keywords(qna[i].q)
             common == Range(keywords) \cap Range(question_keywords)
             similarity == <<Cardinality(common),
                             IntMax(Len(keywords), Len(question_keywords))>>
         IN  IF question_keywords = <<>>
             THEN best_match(qna, i + 1, keywords, best)
             ELSE best_match(qna, i + 1, keywords, FracMax(best, similarity))

_calculate_confidence(qna, user_message) ==
    LET keywords == _extract_keywords(user_message)
    IN  IF qna_has(qna, lower(user_message)) THEN <<9, 10>>
        ELSE IF keywords = <<>> THEN <<0, 1>>
        ELSE best_match(qna, 1, keywords, <<0, 1>>)

----------------------------------------------------------------------------
(* KnowledgeStore: src/main.py:127-249. *)

\* dict[key] = value
Put(f, key, value) ==
    [k \in DOMAIN f \cup {key} |-> IF k = key THEN value ELSE f[k]]

NoDict == [k \in {} |-> 0]

\* _create_default_knowledge at time t. learned_facts and interaction_stats are
\* created on first use; an absent mapping and an empty one read the same.
_create_default_knowledge(t) ==
    [ facts |-> "default",
      memory |-> NoDict,
      learned_phrases |-> NoDict,
      statistics |-> [ total_conversations |-> 0,
                       total_messages |-> 0,
                       learned_qna |-> 0,
                       corrections_received |-> 0,
                       first_start |-> t,
                       total_users |-> 0 ],
      qna |-> seed_qna,
      user_profiles |-> NoDict,
      learned_facts |-> NoDict,
      interaction_stats |-> NoDict,
      \* the top-level keys of a loaded file that the program does not know
      extra |-> NoDict ]

Truthy(name) == name # None /\ name # ""

\* UserProfile(...) with the dataclass defaults
NewProfile(user_id, names, t) ==
    [ user_id |-> user_id,
      username |-> names.username,
      first_name |-> names.first_name,
      last_name |-> names.last_name,
      conversation_count |-> 1,
      total_messages |-> 0,
      learned_contributions |-> 0,
      last_active |-> t,
      preferences |-> NoDict ]

\* A lookup that stores whatever names it is given, empty ones too.
profile_takes_every_name(k, user_id, names, t) ==
    IF user_id \in DOMAIN k.user_profiles
    THEN [k.user_profiles[user_id] EXCEPT
            !.username = names.username, !.first_name = names.first_name,
            !.last_name = names.last_name, !.last_active = t]
    ELSE NewProfile(user_id, names, t)

\* The profile object get_or_create_user_profile returns; it is also what
\* _save_user_profile stores under str(user_id) (keys are modelled by the id).
ProfileOf(k, user_id, names, t) ==
    IF user_id \in DOMAIN k.user_profiles
    THEN LET p == k.user_profiles[user_id]
         IN  [p EXCEPT
                !.username = IF Truthy(names.username) /\ names.username # @
                             THEN names.username ELSE @,
                !.first_name = IF Truthy(names.first_name) /\ names.first_name # @
                               THEN names.first_name ELSE @,
                !.last_name = IF Truthy(names.last_name) /\ names.last_name # @
                              THEN names.last_name ELSE @,
                !.last_active = t]
    ELSE NewProfile(user_id, names, t)

\* A lookup that counts a user on every call.
count_user_every_call(k, user_id, names, t) ==
    [k EXCEPT
        !.statistics.total_users = @ + 1,
        !.user_profiles = Put(@, user_id, ProfileOf(k, user_id, names, t))]

get_or_create_user_profile(k, user_id, names, t) ==
    LET counted ==
            IF user_id \in DOMAIN k.user_profiles THEN k
            ELSE [k EXCEPT !.statistics.total_users = @ + 1]
    IN  [counted EXCEPT
            !.user_profiles = Put(@, user_id, ProfileOf(k, user_id, names, t))]

StatFields == {"total_conversations", "total_messages", "learned_qna",
               "corrections_received", "first_start", "total_users"}

\* An update that leaves the global counters alone.
update_profile_only(k, user_id, field, t) ==
    IF user_id \in DOMAIN k.user_profiles
    THEN [k EXCEPT
            !.user_profiles[user_id] =
                [ (IF field = "total_messages"
                       THEN [@ EXCEPT !.total_messages = @ + 1]
                   ELSE IF field = "learned_contributions"
                       THEN [@ EXCEPT !.learned_contributions = @ + 1]
                   ELSE IF field = "conversation_count"
                       THEN [@ EXCEPT !.conversation_count = @ + 1]
                   ELSE @)
                  EXCEPT !.last_active = t ]]
    ELSE k

\* An update that leaves the profile alone.
update_global_only(k, user_id, field, t) ==
    IF field \in StatFields THEN [k EXCEPT !.statistics[field] = @ + 1] ELSE k

update_user_stats(k, user_id, field, t) ==
    LET user ==
            IF user_id \in DOMAIN k.user_profiles
            THEN [k EXCEPT
                    !.user_profiles[user_id] =
                        [ (IF field = "total_messages"
                               THEN [@ EXCEPT !.total_messages = @ + 1]
                           ELSE IF field = "learned_contributions"
                               THEN [@ EXCEPT !.learned_contributions = @ + 1]
                           ELSE IF field = "conversation_count"
                               THEN [@ EXCEPT !.conversation_count = @ + 1]
                           ELSE @)
                          EXCEPT !.last_active = t ]]
            ELSE k
    IN  IF field \in StatFields
        THEN [user EXCEPT !.statistics[field] = @ + 1]
        ELSE user

----------------------------------------------------------------------------
(* Responses. A response text is named by the string literal (template) it  *)
(* is built from and the values formatted into it.                          *)

Response(tpl, name, text, nums) ==
    [tpl |-> tpl, name |-> name, text |-> text, more |-> Empty, nums |-> nums]

Fixed(tpl) == Response(tpl, "", Empty, <<>>)
\* A stored answer given back in lower case.
verbatim_lowered(text) == Response("verbatim", "", lower(text), <<>>)

Verbatim(text) == Response("verbatim", "", text, <<>>)

Take(s, n) == SubSeq(s, 1, IF Len(s) < n THEN Len(s) ELSE n)
Drop(s, n) == SubSeq(s, n + 1, Len(s))

\* re.search(r'запомни\s*(?:что|,)?\s*(.+)', text): the text of group 1, in a
\* one-line text; found is FALSE when there is no match.
remember_group(text) ==
    LET at == Find(kw_zapomni, text)
        rest == Drop(text, at + Len(kw_zapomni))
        r1 == lstrip(rest)
        r2 == IF StartsWith(r1, kw_chto) THEN Drop(r1, Len(kw_chto))
              ELSE IF StartsWith(r1, kw_comma) THEN Drop(r1, Len(kw_comma))
              ELSE r1
        r3 == lstrip(r2)
    IN  IF at < 0 \/ rest = <<>> THEN [found |-> FALSE, group |-> Empty]
        ELSE IF r3 # <<>> THEN [found |-> TRUE, group |-> r3]
        \* (.+) needs a character: the quantifiers before it give one back
        ELSE IF r2 # <<>> THEN [found |-> TRUE, group |-> <<r2[Len(r2)]>>]
        ELSE IF r1 # <<>> THEN [found |-> TRUE, group |-> r1]
        ELSE [found |-> TRUE, group |-> <<rest[Len(rest)]>>]

\* What a handler can return and the document it leaves: a set, one element
\* per outcome of random.choice. saved is TRUE when the handler saved.
\* Handlers that count each answer they give in the global statistics.
same_but_counted(k, responses) ==
    {[response |-> r,
      knowledge |-> [k EXCEPT !.statistics.total_conversations = @ + 1],
      saved |-> FALSE] : r \in responses}

Same(k, responses) ==
    {[response |-> r, knowledge |-> k, saved |-> FALSE] : r \in responses}

Variants(tpl, n) == {Response(tpl, "", Empty, <<v>>) : v \in 1..n}

_remember_info(message, profile, k, t) ==
    LET m == remember_group(lower(message))
        fact == strip(m.group)
        fact_key == Take(fact, fact_key_len)
        entry == [fact |-> fact, learned_at |-> t, learned_by |-> profile.user_id]
    IN  IF m.found
        THEN {[response |-> Response("remembered", "", fact, <<>>),
               knowledge |-> [k EXCEPT !.learned_facts = Put(@, fact_key, entry)],
               saved |-> TRUE]}
        ELSE Same(k, {Fixed("remember_what")})

_recall_info(message, profile, k) ==
    LET hits == {i \in 1..Len(k.qna) : IsSubstring(k.qna[i].q, lower(message))}
    IN  IF DOMAIN k.learned_facts # {}
        THEN Same(k, {Response("recall", "", k.learned_facts[key].fact, <<>>) :
                        key \in DOMAIN k.learned_facts})
        ELSE IF hits # {} THEN Same(k, {Verbatim(k.qna[Least(hits)].a)})
        ELSE Same(k, {Fixed("know_little")})

_greet(profile) ==
    IF Truthy(profile.first_name)
    THEN {Response("greet_name", profile.first_name, Empty, <<v>>) : v \in 1..3}
    ELSE Variants("greet", 4)

_goodbye(profile) ==
    IF Truthy(profile.first_name)
    THEN {Response("goodbye_name", profile.first_name, Empty, <<v>>) : v \in 1..4}
    ELSE Variants("goodbye", 4)

_how_i_learn(k, auto) ==
    LET stats == k.statistics
    IN  Response("how_i_learn", "", Empty,
                 <<IF auto THEN 1 ELSE 0, stats.learned_qna,
                   stats.corrections_received, stats.total_messages,
                   stats.total_users>>)

_stats_handler(profile, k) ==
    LET stats == k.statistics
    IN  Response("stats", "", Empty,
                 <<stats.total_messages, stats.learned_qna, stats.total_users,
                   profile.total_messages, profile.learned_contributions,
                   profile.conversation_count>>)

\* handler(user_message, user_profile) for the handler named h
Handle(h, message, profile, k, t, auto) ==
    CASE h = "_greet" -> Same(k, _greet(profile))
      [] h = "_goodbye" -> Same(k, _goodbye(profile))
      [] h = "_how_are_you" -> Same(k, Variants("how_are_you", 4))
      [] h = "_thank_you" -> Same(k, Variants("thank_you", 4))
      [] h = "_about_me" -> Same(k, {Response("about_me", k.facts, Empty, <<>>)})
      [] h = "_about_creator" -> Same(k, {Response("facts_creator", k.facts, Empty, <<>>)})
      [] h = "_help" -> Same(k, {Fixed("help")})
      [] h = "_time" -> Same(k, {Response("time", "", Empty, <<t>>)})
      [] h = "_date" -> Same(k, {Response("date", "", Empty, <<t>>)})
      [] h = "_remember_info" -> _remember_info(message, profile, k, t)
      [] h = "_recall_info" -> _recall_info(message, profile, k)
      [] h = "_clear_memory" -> Same(k, {Fixed("use_clearmemory")})
      [] h = "_how_i_learn" -> Same(k, {_how_i_learn(k, auto)})
      [] h = "_weather_handler" -> Same(k, {Fixed("weather_hint")})
      [] h = "_stats_handler" -> Same(k, {_stats_handler(profile, k)})
      [] h = "_currency_handler" -> Same(k, {Fixed("currency")})
      [] h = "_news_handler" -> Same(k, {Fixed("news")})
      [] h = "_joke_handler" -> Same(k, Variants("joke", 1))

----------------------------------------------------------------------------
(* WeatherLookup: src/main.py:445-478. *)

\* cache_duration = timedelta(minutes=30); one tick of the clock is 10 minutes
cache_duration == 30

\* What the provider can answer: a status with a body, or no answer at all
\* (status 0: the request raised, the connection failed or the client's
\* timeout ran out). A body "malformed" is one response.json() or
\* _format_weather_data raises on.
ProviderReplies ==
    { [status |-> 200, data |-> "sunny"], [status |-> 200, data |-> "rain"],
      [status |-> 200, data |-> "malformed"],
      [status |-> 404, data |-> ""], [status |-> 500, data |-> ""],
      [status |-> 0, data |-> "refused"], [status |-> 0, data |-> "timeout"] }

\* A lookup that serves a cached entry whatever its age.
cache_lookup_ageless(cache, has_key, city, t) ==
    LET city_lower == lower(city)
    IN  IF city_lower \in DOMAIN cache
        THEN [answered |-> TRUE, text |-> cache[city_lower].text]
        ELSE IF ~has_key
        THEN [answered |-> TRUE, text |-> Fixed("need_api_key")]
        ELSE [answered |-> FALSE, text |-> Fixed("none")]

\* get_weather up to its first await (src/main.py:447-458): the answer from
\* the cache or the missing-key message, or no answer yet.
cache_lookup(cache, has_key, city, t) ==
    LET city_lower == lower(city)
    IN  IF /\ city_lower \in DOMAIN cache
           /\ (t - cache[city_lower].time) * 10 < cache_duration
        THEN [answered |-> TRUE, text |-> cache[city_lower].text]
        ELSE IF ~has_key
        THEN [answered |-> TRUE, text |-> Fixed("need_api_key")]
        ELSE [answered |-> FALSE, text |-> Fixed("none")]

\* A call that caches whatever the provider answered.
provider_answer_caches_all(cache, city, current_time, reply) ==
    LET text == IF reply.status = 200 /\ reply.data # "malformed"
                THEN Response("weather", reply.data, Empty, <<>>)
                ELSE Response("weather_error_code", "", Empty, <<reply.status>>)
    IN  [text |-> text,
         cache |-> Put(cache, lower(city), [time |-> current_time, text |-> text]),
         raised |-> FALSE]

\* A call without the except clause: what the request raises reaches the
\* caller.
provider_answer_unguarded(cache, city, current_time, reply) ==
    LET weather == Response("weather", reply.data, Empty, <<>>)
        Return(r) == [text |-> r, cache |-> cache, raised |-> FALSE]
    IN  IF reply.status = 0 \/ (reply.status = 200 /\ reply.data = "malformed")
        THEN [text |-> Fixed("none"), cache |-> cache, raised |-> TRUE]
        ELSE IF reply.status = 200
        THEN [text |-> weather,
              cache |-> Put(cache, lower(city),
                            [time |-> current_time, text |-> weather]),
              raised |-> FALSE]
        ELSE IF reply.status = 404
        THEN Return(Response("city_not_found", "", city, <<>>))
        ELSE Return(Response("weather_error_code", "", Empty, <<reply.status>>))

\* get_weather from the provider's reply on (src/main.py:460-478): the text
\* it returns and the cache it leaves. current_time is the time the call
\* started. raised says whether an exception reaches the caller.
provider_answer(cache, city, current_time, reply) ==
    LET weather == Response("weather", reply.data, Empty, <<>>)
        Return(r) == [text |-> r, cache |-> cache, raised |-> FALSE]
    IN  IF reply.status = 0 \/ (reply.status = 200 /\ reply.data = "malformed")
        THEN Return(Response("weather_exception", reply.data, Empty, <<>>))
        ELSE IF reply.status = 200
        THEN [text |-> weather,
              cache |-> Put(cache, lower(city),
                            [time |-> current_time, text |-> weather]),
              raised |-> FALSE]
        ELSE IF reply.status = 404
        THEN Return(Response("city_not_found", "", city, <<>>))
        ELSE Return(Response("weather_error_code", "", Empty, <<reply.status>>))

\* One call of get_weather that nothing interleaves with.
get_weather(cache, has_key, city, t, reply) ==
    LET cached == cache_lookup(cache, has_key, city, t)
        answer == provider_answer(cache, city, t, reply)
    IN  IF cached.answered
        THEN [text |-> cached.text, cache |-> cache, called |-> FALSE]
        ELSE [text |-> answer.text, cache |-> answer.cache, called |-> TRUE]

\* re.search(r'погода\s+(.+)', text) in a one-line text: group 1 of the
\* leftmost match.
weather_city_group(text) ==
    LET After(p) == Drop(text, p + Len(kw_pogoda))
        starts == {p \in 0..(Len(text) - Len(kw_pogoda)) :
                     /\ SubSeq(text, p + 1, p + Len(kw_pogoda)) = kw_pogoda
                     /\ Len(After(p)) >= 2
                     /\ IsSpace(After(p)[1])}
        rest == After(Least(starts))
    IN  IF starts = {} THEN [found |-> FALSE, group |-> Empty]
        ELSE IF lstrip(rest) # <<>> THEN [found |-> TRUE, group |-> lstrip(rest)]
        ELSE [found |-> TRUE, group |-> <<rest[Len(rest)]>>]

has_weather_word(user_message) ==
    \E word \in {kw_pogoda, kw_weather, kw_prognoz} :
        IsSubstring(word, lower(user_message))

----------------------------------------------------------------------------
(* ConversationEngine: process_message, src/main.py:577-684. *)

\* A tally keyed by the first two keywords in the order they were typed.
learn_unsorted_keywords(k, question, answer) ==
    LET keywords == _extract_keywords(lower(question))
        key == keywords[1] \o <<32>> \o keywords[2]
        old == IF key \in DOMAIN k.interaction_stats
               THEN k.interaction_stats[key] ELSE NoDict
        count == IF answer \in DOMAIN old THEN old[answer] ELSE 0
    IN  IF Len(keywords) >= min_common
        THEN [k EXCEPT !.interaction_stats = Put(@, key, Put(old, answer, count + 1))]
        ELSE k

_learn_from_interaction(k, question, answer) ==
    LET keywords == _extract_keywords(lower(question))
        \* sorted(keywords)[:2]: the two least keywords in code-point order,
        \* a repeated keyword counted each time
        Before(a, b) ==
            \E n \in 1..Len(a) + 1 :
                /\ \A m \in 1..(n - 1) : m <= Len(b) /\ a[m] = b[m]
                /\ \/ n > Len(a) /\ n <= Len(b)
                   \/ n <= Len(a) /\ n <= Len(b) /\ a[n] < b[n]
        first == CHOOSE i \in 1..Len(keywords) :
                    \A j \in 1..Len(keywords) : ~Before(keywords[j], keywords[i])
        second == CHOOSE i \in 1..Len(keywords) \ {first} :
                    \A j \in 1..Len(keywords) \ {first} :
                        ~Before(keywords[j], keywords[i])
        key == keywords[first] \o <<32>> \o keywords[second]
        old == IF key \in DOMAIN k.interaction_stats
               THEN k.interaction_stats[key] ELSE NoDict
        count == IF answer \in DOMAIN old THEN old[answer] ELSE 0
    IN  IF Len(keywords) >= min_common
        THEN [k EXCEPT !.interaction_stats = Put(@, key, Put(old, answer, count + 1))]
        ELSE k

\* A write that stores the question as it was typed.
learn_answer_as_typed(k, question, answer) ==
    [k EXCEPT !.qna = qna_set(@, question, answer)]

\* self.knowledge["qna"][question.lower()] = answer (src/main.py:596-600)
learn_answer(k, question, answer) ==
    [k EXCEPT !.qna = qna_set(@, lower(question), answer)]

\* A gate that asks to be taught whatever the learning mode is.
wants_teaching_always(confidence, auto) ==
    FracLess(confidence, <<confidence_threshold_num, confidence_threshold_den>>)

\* confidence < confidence_threshold and auto_correction (src/main.py:654)
wants_teaching(confidence, auto) ==
    /\ FracLess(confidence, <<confidence_threshold_num, confidence_threshold_den>>)
    /\ auto

\* An engine that consults the question table before the rules.
stage_qna_first(rule_hit, qna_hit, weather_hit, teach_hit) ==
    IF qna_hit THEN "qna"
    ELSE IF rule_hit THEN "rule"
    ELSE IF weather_hit THEN "weather"
    ELSE IF teach_hit THEN "teach"
    ELSE "fallback"

\* The stage that answers a turn which is not a stored correction: the chain
\* of if statements of src/main.py:612-667, each returning when it applies.
stage_order(rule_hit, qna_hit, weather_hit, teach_hit) ==
    IF rule_hit THEN "rule"
    ELSE IF qna_hit THEN "qna"
    ELSE IF weather_hit THEN "weather"
    ELSE IF teach_hit THEN "teach"
    ELSE "fallback"

NoPending == [present |-> FALSE, question |-> Empty]
Pending(q) == [present |-> TRUE, question |-> q]

\* A result that asks for a follow-up without saying which.
outcome_without_action(response, needs_followup, action, correction_data) ==
    [ response |-> response, needs_followup |-> needs_followup,
      action |-> "None", correction_data |-> correction_data ]

Outcome(response, needs_followup, action, correction_data) ==
    [ response |-> response, needs_followup |-> needs_followup,
      action |-> action, correction_data |-> correction_data ]

Result(k, dsk, cache, stage, rule, outcome) ==
    [ knowledge |-> k, disk |-> dsk, cache |-> cache, stage |-> stage,
      rule |-> rule, outcome |-> outcome ]

\* Everything one call of process_message can return and leave behind: one
\* element per outcome of random.choice. k2 is the document after the profile
\* and the message counters were updated and saved.
process_message(k0, cache, has_key, auto, t, user_id, user_message, names, is_correction, correction_data) ==
    LET user_profile == ProfileOf(k0, user_id, names, t)
        k1 == get_or_create_user_profile(k0, user_id, names, t)
        k2 == update_user_stats(k1, user_id, "total_messages", t)
        question == correction_data.question
        k3 == learn_answer(k2, question, user_message)
        k4 == update_user_stats(k3, user_id, "learned_contributions", t)
        k5 == [k4 EXCEPT !.statistics.learned_qna = @ + 1,
                         !.statistics.corrections_received = @ + 1]
        rule == first_rule(user_message)
        qna_answer == _check_qna_match(k2.qna, user_message)
        city_match == weather_city_group(lower(user_message))
        city == strip(city_match.group)
        confidence == _calculate_confidence(k2.qna, user_message)
        stage == stage_order(rule # 0,
                             qna_answer.found /\ qna_answer.answer # Empty,
                             has_weather_word(user_message),
                             wants_teaching(confidence, auto))
    IN  IF is_correction /\ ContextTruthy(correction_data) /\ question # Empty
        THEN {Result(k5, k5, cache, "correction", 0,
                Outcome([Response("learned", "", question, <<>>)
                            EXCEPT !.more = user_message],
                        FALSE, "None", NoPending))}
        ELSE IF stage = "rule"
        THEN {Result(_learn_from_interaction(h.knowledge, user_message, h.response),
                     IF h.saved THEN h.knowledge ELSE k2,
                     cache, "rule", rule,
                     Outcome(h.response, FALSE, "None", NoPending)) :
                h \in Handle(rules[rule].handler, user_message, user_profile,
                             k2, t, auto)}
        ELSE IF stage = "qna"
        THEN {Result(_learn_from_interaction(k2, user_message,
                                             Verbatim(qna_answer.answer)),
                     k2, cache, "qna", 0,
                     Outcome(Verbatim(qna_answer.answer), FALSE, "None", NoPending))}
        ELSE IF stage = "weather"
        THEN IF city_match.found
             THEN {Result(k2, k2, w.cache, "weather", 0,
                          Outcome(w.text, FALSE, "None", NoPending)) :
                     w \in {get_weather(cache, has_key, city, t, reply) :
                              reply \in ProviderReplies}}
             ELSE {Result(k2, k2, cache, "weather", 0,
                          Outcome(Fixed("weather_ask_city"), TRUE, "weather",
                                  NoPending))}
        ELSE IF stage = "teach"
        THEN {Result(k2, k2, cache, "teach", 0,
                     Outcome(Response("not_sure", "", user_message, <<>>),
                             TRUE, "correction", Pending(user_message)))}
        \* _get_fallback_response: one of five phrasings of the same reply; which
        \* one random.choice picked is not recorded
        ELSE {Result(k2, k2, cache, "fallback", 0,
                     Outcome(Response("fallback", "", user_message, <<>>),
                             FALSE, "None", NoPending))}


----------------------------------------------------------------------------
(* The state machine. *)

\* The callers that can have a call of get_weather in flight, each awaiting
\* the provider in a task of its own.
Callers == {1, 2, 3}


NoEntry == [present |-> FALSE, time |-> 0, text |-> Fixed("none")]

NoCall == [seen |-> FALSE, city |-> Empty, time |-> 0, before |-> NoEntry,
           called |-> FALSE, status |-> 0, text |-> Fixed("none"),
           raised |-> FALSE]

IdleRequest == [pc |-> "idle", city |-> Empty, current_time |-> 0,
                before |-> NoEntry, late |-> FALSE]

\* The tasks the dispatcher starts, one per incoming message.
TaskIds == 1..MaxTasks

NewTask == [pc |-> "new", user |-> 0, message |-> Empty, is_correction |-> FALSE,
            correction_data |-> NoContext, k0 |-> _create_default_knowledge(0)]

\* The top-level keys of the document the engine reads without a default.
TopKeys == {"statistics", "qna", "user_profiles", "facts"}

\* The states of knowledge.json.
Document(keys) == [kind |-> "document", keys |-> keys]
Absent == [kind |-> "absent", keys |-> {}]
Unreadable == [kind |-> "unreadable", keys |-> {}]

NoStoreLog == [found |-> "none", turns |-> 0, fault |-> "none", writes |-> <<>>]

\* default_state of the dispatcher's chats: no state, no data (FSMContext
\* over an empty MemoryStorage, src/main.py:706-707).
NoState == [state |-> "None", data |-> EmptyContext]

NoHandler == [pc |-> "idle", chat |-> 0, what |-> "none", text |-> Empty,
              data |-> EmptyContext, pending |-> NoPending]

NoStep == [kind |-> "none", chat |-> 0, what |-> "none", text |-> Empty,
           before |-> NoState, after |-> NoState, pending |-> NoPending,
           size |-> 0]

\* No chat is in a dialog and no handler is suspended.
DialogIdle ==
    /\ fsm = [c \in Users |-> NoState]
    /\ handlers = [i \in TaskIds |-> NoHandler]
    /\ updates = 0
    /\ consumed = [c \in Users |-> 0]
    /\ dialog_log = NoStep

\* Nothing runs beside the conversation.
SideInit ==
    /\ requests = [c \in Callers |-> IdleRequest]
    /\ weather_log = NoCall
    /\ tasks = [i \in TaskIds |-> NewTask]
    /\ running = 0
    /\ serial = _create_default_knowledge(0)
    /\ file = Document(TopKeys)
    /\ present = TopKeys
    /\ phase = "serving"
    /\ store_log = NoStoreLog
    /\ DialogIdle

NoProbe == [qna |-> <<>>, message |-> Empty, asked |-> FALSE, result |-> NoMatch]

NoTurn ==
    [ user |-> 0, message |-> Empty, is_correction |-> FALSE,
      correction_data |-> NoContext, auto |-> TRUE,
      before |-> _create_default_knowledge(0),
      after |-> _create_default_knowledge(0),
      followup |-> NoPending,
      stage |-> "none", rule |-> 0,
      outcome |-> Outcome(Fixed("none"), FALSE, "None", NoPending) ]

Init ==
    /\ knowledge = _create_default_knowledge(0)
    /\ disk = _create_default_knowledge(0)
    /\ auto_correction = TRUE
    /\ weather_cache = NoDict
    /\ api_key = FALSE
    /\ now = 0
    /\ followup = [u \in Users |-> NoPending]
    /\ probe = NoProbe
    /\ last = NoTurn
    /\ SideInit

\* One call of process_message, from its first line to its return.
Call(user_id, user_message, is_correction, correction_data) ==
    /\ knowledge.statistics.total_messages < MaxMessages
    /\ \E r \in process_message(knowledge, weather_cache, api_key,
                                auto_correction, now, user_id, user_message,
                                NamesOf(user_id), is_correction,
                                correction_data) :
        /\ knowledge' = r.knowledge
        /\ disk' = r.disk
        /\ weather_cache' = r.cache
        /\ followup' = [followup EXCEPT ![user_id] = r.outcome.correction_data]
        /\ last' = [ user |-> user_id, message |-> user_message,
                     is_correction |-> is_correction,
                     correction_data |-> correction_data,
                     auto |-> auto_correction,
                     before |-> knowledge, after |-> r.knowledge,
                     followup |-> followup[user_id],
                     stage |-> r.stage, rule |-> r.rule,
                     outcome |-> r.outcome ]
    /\ UNCHANGED <<auto_correction, api_key, now, probe, side_vars>>

\* What each user sends. User 1 sends every utterance and every kind of
\* correction reply; user 2 is a second participant who asks, is asked to
\* teach, and teaches.
UtterancesOf(user_id) ==
    IF user_id = 1 THEN Utterances ELSE {U_xyz, U_kak_zovut}

\* <<correction_data, reply>>. A reply without text goes with the pending
\* question the front end kept.
CorrectionsOf(user_id) ==
    LET taught == {<<QuestionContext(q), a>> : q \in Questions \ {Empty}, a \in Answers}
        unasked == {<<c, a>> : c \in {NoContext, EmptyContext, QuestionContext(Empty)},
                              a \in Answers \ {Empty}}
    IN  IF user_id = 1 THEN taught \cup unasked ELSE taught

\* An ordinary turn: handle_message, stats_command (src/main.py:923-930, 773-779).
Turn ==
    \E user_id \in Users : \E user_message \in UtterancesOf(user_id) :
        Call(user_id, user_message, FALSE, NoContext)

\* A turn the caller flags as a correction reply (src/main.py:864-872).
CorrectionTurn ==
    \E user_id \in Users : \E c \in CorrectionsOf(user_id) :
        Call(user_id, c[2], TRUE, c[1])

\* A clearing that starts the document over from the default one, keeping
\* the profiles and the counters.
clear_to_default(k) ==
    [_create_default_knowledge(0) EXCEPT !.qna = <<>>,
                                         !.facts = k.facts,
                                         !.statistics = k.statistics,
                                         !.user_profiles = k.user_profiles]

\* A clearing that also forgets how many answers were learned.
clear_with_counter(k) ==
    [k EXCEPT !.qna = <<>>, !.learned_facts = NoDict, !.interaction_stats = NoDict,
              !.statistics.learned_qna = 0]

\* A confirmed clearing that keeps the questions the document started with.
clear_learned_only(k) ==
    [k EXCEPT !.qna = _create_default_knowledge(0).qna,
              !.learned_facts = NoDict, !.interaction_stats = NoDict]

\* The three tables "clear_yes" empties (src/main.py:951-953).
clear_memory(k) ==
    [k EXCEPT !.qna = <<>>, !.learned_facts = NoDict, !.interaction_stats = NoDict]

\* handle_callback, data == "clear_yes" (src/main.py:950-954)
ClearMemory ==
    /\ knowledge' = clear_memory(knowledge)
    /\ disk' = knowledge'
    /\ UNCHANGED <<auto_correction, weather_cache, api_key, now, followup,
                   probe, last, side_vars>>

\* handle_callback, data == "toggle_learning" (src/main.py:967-968)
ToggleLearning ==
    /\ auto_correction' = ~auto_correction
    /\ UNCHANGED <<knowledge, disk, weather_cache, api_key, now, followup,
                   probe, last, side_vars>>

Next == Turn \/ CorrectionTurn \/ ClearMemory \/ ToggleLearning

Spec == Init /\ [][Next]_vars

----------------------------------------------------------------------------
(* The matcher on its own: a question table and an utterance are chosen,   *)
(* and _check_qna_match is applied to them once.                           *)

\* The stored questions of the tables: lower-cased, as the engine stores them.
ProbeQuestions == { lower(U_xyz), U_abc_xyz, lower(U_qqq), lower(U_python_q) }

\* The stored answers; an entry taught by a message without text has none.
ProbeAnswers == { U_parizh, U_privet, Empty }

ProbeUtterances == { U_xyz, U_qxa, U_qqq, U_abc_xyz, U_python, Empty }

\* The tables of at most MaxQna entries: a dict has no key twice.
ProbeTables ==
    LET Entries == [q : ProbeQuestions, a : ProbeAnswers]
        Tables(n) == {s \in [1..n -> Entries] :
                        \A i, j \in 1..n : s[i].q = s[j].q => i = j}
    IN  UNION {Tables(n) : n \in 0..MaxQna}

InitQnA ==
    /\ knowledge = _create_default_knowledge(0)
    /\ disk = _create_default_knowledge(0)
    /\ auto_correction = TRUE
    /\ weather_cache = NoDict
    /\ api_key = FALSE
    /\ now = 0
    /\ followup = [u \in Users |-> NoPending]
    /\ last = NoTurn
    /\ SideInit
    /\ probe \in {[qna |-> table, message |-> user_message, asked |-> FALSE,
                    result |-> NoMatch] :
                      table \in ProbeTables, user_message \in ProbeUtterances}

\* self._check_qna_match(user_message) on the chosen table
AskQnA ==
    /\ ~probe.asked
    /\ probe' = [probe EXCEPT !.asked = TRUE,
                              !.result = _check_qna_match(probe.qna, probe.message)]
    /\ UNCHANGED <<knowledge, disk, auto_correction, weather_cache, api_key, now,
                   followup, last, side_vars>>

NextQnA == AskQnA

SpecQnA == InitQnA /\ [][NextQnA]_vars

----------------------------------------------------------------------------
(* The confidence score on its own: a question table and an utterance are  *)
(* chosen, and _calculate_confidence is applied to them once.              *)

\* Stored questions: each is the lower-cased text of an utterance that gets a
\* teach-me prompt on the default document and is then taught.
ConfidenceQuestions == { lower(U_kto), lower(U_xyz), U_abc_xyz, lower(U_pylang) }

ConfidenceUtterances == { U_kto, U_xyz, U_qxa, U_qxx, U_pylang, U_python, Empty }

ConfidenceTables ==
    LET Entries == [q : ConfidenceQuestions, a : {U_parizh}]
        Tables(n) == {s \in [1..n -> Entries] :
                        \A i, j \in 1..n : s[i].q = s[j].q => i = j}
    IN  UNION {Tables(n) : n \in 0..MaxQna}

InitConfidence ==
    /\ knowledge = _create_default_knowledge(0)
    /\ disk = _create_default_knowledge(0)
    /\ auto_correction = TRUE
    /\ weather_cache = NoDict
    /\ api_key = FALSE
    /\ now = 0
    /\ followup = [u \in Users |-> NoPending]
    /\ last = NoTurn
    /\ SideInit
    /\ probe \in {[qna |-> table, message |-> user_message, asked |-> FALSE,
                    result |-> <<0, 1>>] :
                      table \in ConfidenceTables,
                      user_message \in ConfidenceUtterances}

\* self._calculate_confidence(user_message) on the chosen table
AskConfidence ==
    /\ ~probe.asked
    /\ probe' = [probe EXCEPT
                    !.asked = TRUE,
                    !.result = _calculate_confidence(probe.qna, probe.message)]
    /\ UNCHANGED <<knowledge, disk, auto_correction, weather_cache, api_key, now,
                   followup, last, side_vars>>

NextConfidence == AskConfidence

SpecConfidence == InitConfidence /\ [][NextConfidence]_vars

----------------------------------------------------------------------------
(* The weather lookup on its own: callers start calls of get_weather, the  *)
(* provider answers them in any order, and the clock advances.             *)

\* The city each caller asks for: one city, in two spellings.
CityOf(c) == IF c = 2 THEN lower(U_moskva) ELSE U_moskva

\* What the cache held for the city when a call started.
EntryBefore(cache, city) ==
    IF lower(city) \in DOMAIN cache
    THEN [present |-> TRUE, time |-> cache[lower(city)].time,
          text |-> cache[lower(city)].text]
    ELSE NoEntry

\* The record of a call that returned: the city and the time it started
\* with, the entry the cache held for the city, whether the provider was
\* asked and with what status it answered (0: the request failed), and what
\* the call gave its caller.
Returned(city, t, before, called, status, text, raised) ==
    [seen |-> TRUE, city |-> city, time |-> t, before |-> before,
     called |-> called, status |-> status, text |-> text, raised |-> raised]

InitWeather ==
    /\ knowledge = _create_default_knowledge(0)
    /\ disk = _create_default_knowledge(0)
    /\ auto_correction = TRUE
    /\ weather_cache = NoDict
    /\ api_key \in BOOLEAN
    /\ now = 0
    /\ followup = [u \in Users |-> NoPending]
    /\ probe = NoProbe
    /\ last = NoTurn
    /\ SideInit

\* get_weather(city) from its first line to its first await: it returns at
\* once from the cache or without a key, or sends the request and waits.
StartLookup(c) ==
    LET city == CityOf(c)
        cached == cache_lookup(weather_cache, api_key, city, now)
        before == EntryBefore(weather_cache, city)
    IN  /\ requests[c].pc = "idle"
        /\ IF cached.answered
           THEN /\ weather_log' = (
                      Returned(city, now, before, FALSE, 0, cached.text, FALSE))
                /\ UNCHANGED requests
           ELSE /\ requests' = [requests EXCEPT ![c] =
                      [pc |-> "waiting", city |-> city, current_time |-> now,
                       before |-> before, late |-> FALSE]]
                /\ UNCHANGED weather_log
        /\ UNCHANGED <<knowledge, disk, auto_correction, weather_cache, api_key,
                       now, followup, probe, last, task_vars, store_vars,
                       dialog_vars>>

\* The provider's reply, or the failure of the request, reaches the call,
\* which returns.
FinishLookup(c) ==
    /\ requests[c].pc = "waiting"
    /\ \E reply \in ProviderReplies :
        LET r == requests[c]
            answer == provider_answer(weather_cache, r.city, r.current_time, reply)
        IN  /\ weather_cache' = answer.cache
            /\ weather_log' = (
                   Returned(r.city, r.current_time, r.before, TRUE, reply.status,
                            answer.text, answer.raised))
    /\ requests' = [requests EXCEPT ![c] = IdleRequest]
    /\ UNCHANGED <<knowledge, disk, auto_correction, api_key, now, followup,
                   probe, last, task_vars, store_vars,
                   dialog_vars>>

\* Ten minutes pass. The client gives a request five minutes, so a call in
\* flight sees the clock advance at most once.
Tick ==
    /\ now < MaxTime
    /\ \A c \in Callers : ~requests[c].late
    /\ now' = now + 1
    /\ requests' = [c \in Callers |->
                      IF requests[c].pc = "waiting"
                      THEN [requests[c] EXCEPT !.late = TRUE] ELSE requests[c]]
    /\ UNCHANGED <<knowledge, disk, auto_correction, weather_cache, api_key,
                   followup, probe, last, weather_log, task_vars,
                   store_vars, dialog_vars>>

NextWeather ==
    \/ \E c \in Callers : StartLookup(c)
    \/ \E c \in Callers : FinishLookup(c)
    \/ Tick

SpecWeather == InitWeather /\ [][NextWeather]_vars

\* The client gives every request a total time (aiohttp's default timeout),
\* so a request that was sent is answered or fails: a waiting call goes on.
SpecWeatherFair ==
    SpecWeather /\ \A c \in Callers : WF_vars(FinishLookup(c))

----------------------------------------------------------------------------
(* Turns started together. The dispatcher runs every incoming message in a *)
(* task of its own on one event loop; a task keeps the loop from one await *)
(* to the next.                                                            *)

\* Whether the event loop can leave a turn at a position of process_message.
\* Its only await is the call of get_weather (src/main.py:639), after the
\* last write of the document; between the entry and the return of any other
\* path there is none. This variant has one at every position.
may_yield_anywhere(pc) == TRUE

may_yield(pc) == pc = "get_weather"

\* What the tasks are given: ordinary messages and correction replies.
TurnInputs ==
    {[user |-> u, message |-> m, is_correction |-> FALSE, correction_data |-> NoContext] :
        u \in Users, m \in Utterances}
    \cup {[user |-> u, message |-> c[2], is_correction |-> TRUE, correction_data |-> c[1]] :
        u \in Users, c \in CorrectionsOf(2)}

\* What process_message makes of a document for the turn of a task.
TurnResults(k0, task) ==
    process_message(k0, weather_cache, api_key, auto_correction, now, task.user,
                    task.message, NamesOf(task.user), task.is_correction,
                    task.correction_data)

\* A task enters process_message and reads the document.
StartTurn(i) ==
    /\ tasks[i].pc = "new"
    /\ running = 0
    /\ \E input \in TurnInputs :
          tasks' = [tasks EXCEPT ![i] =
                      [pc |-> "entered", user |-> input.user,
                       message |-> input.message,
                       is_correction |-> input.is_correction,
                       correction_data |-> input.correction_data,
                       k0 |-> knowledge]]
    /\ running' = IF may_yield("entered") THEN 0 ELSE i
    /\ UNCHANGED <<knowledge, disk, auto_correction, weather_cache, api_key, now,
                   followup, probe, last, weather_vars, serial, store_vars,
                   dialog_vars>>

\* The task writes what the turn made of the document it read, and returns.
\* serial takes the same turn after the turns that returned before.
FinishTurn(i) ==
    /\ tasks[i].pc = "entered"
    /\ running \in {0, i}
    /\ \E r \in TurnResults(tasks[i].k0, tasks[i]) :
          /\ knowledge' = r.knowledge
          /\ disk' = r.disk
          /\ weather_cache' = r.cache
          /\ followup' = [followup EXCEPT ![tasks[i].user] = r.outcome.correction_data]
          /\ serial' = IF r \in TurnResults(serial, tasks[i])
                       THEN r.knowledge
                       ELSE (CHOOSE s \in TurnResults(serial, tasks[i]) : TRUE).knowledge
    /\ tasks' = [tasks EXCEPT ![i].pc = "done"]
    /\ running' = 0
    /\ UNCHANGED <<auto_correction, api_key, now, probe, last, weather_vars,
                   store_vars, dialog_vars>>

NextTurns ==
    \/ \E i \in TaskIds : StartTurn(i)
    \/ \E i \in TaskIds : FinishTurn(i)

SpecTurns == Init /\ [][NextTurns]_vars

----------------------------------------------------------------------------
(* The store: knowledge.json is read once when the engine is built, and    *)
(* written by _save_knowledge, whose failures are logged and swallowed.    *)

\* A document as json.load returns it from a file that lacks some top-level
\* keys: the tables of the keys it lacks are empty.
Keep(k, keys) ==
    [k EXCEPT !.qna = IF "qna" \in keys THEN @ ELSE <<>>,
              !.user_profiles = IF "user_profiles" \in keys THEN @ ELSE NoDict,
              !.facts = IF "facts" \in keys THEN @ ELSE "missing"]

\* A load that hands out the default document without writing it.
load_default_unsaved(f, dsk, t) ==
    IF f.kind = "document"
    THEN [knowledge |-> Keep(dsk, f.keys), present |-> f.keys, created |-> FALSE]
    ELSE [knowledge |-> _create_default_knowledge(t), present |-> TopKeys,
          created |-> FALSE]

\* _load_knowledge (src/main.py:127-137): the parsed file, or the default
\* document when the file does not exist or does not parse. created says
\* whether _create_default_knowledge ran, which saves what it made.
_load_knowledge(f, dsk, t) ==
    IF f.kind = "document"
    THEN [knowledge |-> Keep(dsk, f.keys), present |-> f.keys, created |-> FALSE]
    ELSE [knowledge |-> _create_default_knowledge(t), present |-> TopKeys,
          created |-> TRUE]

\* How the writes of one operation can end: the last one wrote the file; none
\* reached the file; one left the file half-written and none after it
\* succeeded; an earlier one wrote the file and the later ones failed.
WriteOutcomes == {"written", "failed", "torn", "partly"}

\* _save_knowledge (src/main.py:181-190) over the documents an operation
\* saves, in order: the file and its content afterwards.
_save_knowledge(f, dsk, points, keys, outcome) ==
    IF points = <<>> THEN {[file |-> f, disk |-> dsk]}
    ELSE IF outcome = "written"
    THEN {[file |-> Document(keys), disk |-> points[Len(points)]]}
    ELSE IF outcome = "torn" THEN {[file |-> Unreadable, disk |-> dsk]}
    ELSE IF outcome = "partly"
    THEN {[file |-> Document(keys), disk |-> points[n]] : n \in 1..(Len(points) - 1)}
    ELSE {[file |-> f, disk |-> dsk]}

\* An engine that drops what an operation changed when its write failed.
memory_rolled_back(k_before, k_after, outcome) ==
    IF outcome = "written" THEN k_after ELSE k_before

\* The document in memory after an operation whose writes ended in outcome:
\* the except clause of _save_knowledge only logs (src/main.py:189-190).
memory_after_save(k_before, k_after, outcome) == k_after

\* The key whose lookup raises KeyError in a turn, or "none": statistics is
\* read without a default for a new user and for every counter
\* (src/main.py:216, 246), facts by two handlers (308, 316), qna by
\* _recall_info when no fact was learned (381-387).
missing_key(keys, k2, stored, stage, handler) ==
    IF "statistics" \notin keys THEN "statistics"
    ELSE IF stored \/ stage # "rule" THEN "none"
    ELSE IF handler \in {"_about_me", "_about_creator"} /\ "facts" \notin keys
    THEN "facts"
    ELSE IF handler = "_recall_info" /\ k2.learned_facts = NoDict /\ "qna" \notin keys
    THEN "qna"
    ELSE "none"

\* The engine is built on a file in any state; a document on it may lack
\* top-level keys.
StoredKeySets ==
    {TopKeys, {}} \cup {TopKeys \ {key} : key \in TopKeys}

InitStore ==
    /\ knowledge = _create_default_knowledge(0)
    /\ \E f \in {Absent, Unreadable} \cup {Document(keys) : keys \in StoredKeySets} :
          /\ file = f
          /\ disk = Keep(_create_default_knowledge(0), f.keys)
    /\ auto_correction = TRUE
    /\ weather_cache = NoDict
    /\ api_key = FALSE
    /\ now = 0
    /\ followup = [u \in Users |-> NoPending]
    /\ probe = NoProbe
    /\ last = NoTurn
    /\ requests = [c \in Callers |-> IdleRequest]
    /\ weather_log = NoCall
    /\ tasks = [i \in TaskIds |-> NewTask]
    /\ running = 0
    /\ serial = _create_default_knowledge(0)
    /\ present = {}
    /\ phase = "start"
    /\ store_log = NoStoreLog
    /\ DialogIdle

\* The last two entries of the log of writes.
Noted(writes, outcome) ==
    IF Len(writes) < 2 THEN Append(writes, outcome) ELSE <<writes[2], outcome>>

\* NixAICore.__init__: self.knowledge = self._load_knowledge().
Load ==
    /\ phase = "start"
    /\ LET loaded == _load_knowledge(file, disk, now)
       IN  /\ knowledge' = loaded.knowledge
           /\ present' = loaded.present
           /\ IF loaded.created
              THEN \E outcome \in WriteOutcomes \ {"partly"} :
                     \E w \in _save_knowledge(file, disk, <<loaded.knowledge>>,
                                              loaded.present, outcome) :
                        /\ file' = w.file
                        /\ disk' = w.disk
                        /\ store_log' = [store_log EXCEPT
                                           !.found = file.kind,
                                           !.writes = Noted(@, outcome)]
              ELSE /\ UNCHANGED <<file, disk>>
                   /\ store_log' = [store_log EXCEPT !.found = file.kind]
    /\ phase' = "serving"
    /\ UNCHANGED <<auto_correction, weather_cache, api_key, now, followup, probe,
                   last, weather_vars, task_vars, dialog_vars>>

\* What the engine is sent once it serves.
StoreInputs ==
    { [user |-> 1, message |-> U_kak_zovut, is_correction |-> FALSE,
       correction_data |-> NoContext],
      [user |-> 1, message |-> U_xyz, is_correction |-> FALSE,
       correction_data |-> NoContext],
      [user |-> 2, message |-> U_help_time, is_correction |-> FALSE,
       correction_data |-> NoContext],
      [user |-> 2, message |-> U_parizh, is_correction |-> TRUE,
       correction_data |-> QuestionContext(U_xyz)] }

\* One call of process_message on the loaded document, with writes that can
\* fail. A lookup of a missing key ends the call with KeyError where it
\* stands: what was changed and saved before stays.
StoredTurn ==
    /\ phase = "serving"
    /\ store_log.turns < MaxMessages
    /\ \E input \in StoreInputs : \E r \in TurnResults(knowledge, input) :
       \E outcome \in WriteOutcomes :
        LET names == NamesOf(input.user)
            known == input.user \in DOMAIN knowledge.user_profiles
            k1 == get_or_create_user_profile(knowledge, input.user, names, now)
            k2 == update_user_stats(k1, input.user, "total_messages", now)
            key == missing_key(present, k2, r.stage = "correction", r.stage,
                               IF r.rule = 0 THEN "" ELSE rules[r.rule].handler)
            after == IF key = "none" THEN r.knowledge
                     ELSE IF key # "statistics" THEN k2
                     ELSE IF known THEN [k2 EXCEPT !.statistics = knowledge.statistics]
                     ELSE knowledge
            points == IF key = "none" THEN <<k1, k2, r.disk>>
                      ELSE IF key # "statistics" THEN <<k1, k2>>
                      ELSE IF known THEN <<k1>>
                      ELSE <<>>
            keys == IF points = <<>> THEN present
                    ELSE present \cup {"user_profiles"}
                         \cup (IF key = "none" /\ r.stage = "correction"
                               THEN {"qna"} ELSE {})
        IN  /\ knowledge' = memory_after_save(knowledge, after, outcome)
            /\ present' = keys
            /\ \E w \in _save_knowledge(file, disk, points, keys, outcome) :
                  /\ file' = w.file
                  /\ disk' = w.disk
            /\ weather_cache' = r.cache
            /\ followup' = IF key = "none"
                           THEN [followup EXCEPT ![input.user] = r.outcome.correction_data]
                           ELSE followup
            /\ store_log' = [store_log EXCEPT
                               !.turns = @ + 1,
                               !.fault = key,
                               !.writes = IF points = <<>> THEN @
                                          ELSE Noted(@, outcome)]
    /\ UNCHANGED <<auto_correction, api_key, now, probe, last, weather_vars,
                   task_vars, phase, dialog_vars>>

NextStore == Load \/ StoredTurn

SpecStore == InitStore /\ [][NextStore]_vars

----------------------------------------------------------------------------
(* The profile lookup on its own: a stored profile and the names Telegram  *)
(* reports are chosen, and get_or_create_user_profile is applied once.     *)

\* The names a stored profile can hold and a message can carry.
StoredNames ==
    [username : {None, "ann", "bob"}, first_name : {None, "Ann"},
     last_name : {None, "", "Lee"}]

SuppliedNames ==
    [username : {None, "", "ann", "bob"}, first_name : {None, "Ann", "Bob"},
     last_name : {None, ""}]

\* A profile of user 1 stored by earlier turns.
StoredProfile(names, messages, preferences) ==
    [NewProfile(1, names, 0) EXCEPT
        !.conversation_count = 1 + messages, !.total_messages = messages,
        !.learned_contributions = messages, !.preferences = preferences]

StoredProfiles ==
    {NoDict} \cup
    {Put(NoDict, 1, StoredProfile(names, messages, preferences)) :
        names \in StoredNames, messages \in {0, 2},
        preferences \in {NoDict, Put(NoDict, "lang", 1)}}

InitProfile ==
    /\ \E profiles \in StoredProfiles :
          /\ knowledge = [_create_default_knowledge(0) EXCEPT
                            !.user_profiles = profiles,
                            !.statistics.total_users = Cardinality(DOMAIN profiles)]
          /\ disk = knowledge
          /\ probe = [asked |-> FALSE, user |-> 0, names |-> NoNames,
                      before |-> knowledge]
    /\ auto_correction = TRUE
    /\ weather_cache = NoDict
    /\ api_key = FALSE
    /\ now = 1
    /\ followup = [u \in Users |-> NoPending]
    /\ last = NoTurn
    /\ SideInit

\* self.get_or_create_user_profile(user_id, username, first_name, last_name)
LookupProfile ==
    /\ ~probe.asked
    /\ \E user_id \in Users : \E names \in SuppliedNames :
          /\ knowledge' = get_or_create_user_profile(knowledge, user_id, names, now)
          /\ probe' = [asked |-> TRUE, user |-> user_id, names |-> names,
                       before |-> knowledge]
    /\ disk' = knowledge'
    /\ UNCHANGED <<auto_correction, weather_cache, api_key, now, followup, last,
                   side_vars>>

NextProfile == LookupProfile

SpecProfile == InitProfile /\ [][NextProfile]_vars

----------------------------------------------------------------------------
(* The rule handlers on their own: a handler, a message, a profile and a   *)
(* document are chosen, and the handler is called once.                    *)

HandlerNames == {rules[i].handler : i \in DOMAIN rules}

\* The messages the handlers are called with; two of them ask to remember,
\* one without saying what.
HandlerMessages == {U_zapomni, kw_zapomni, U_help_time, U_chto_znaesh, U_python_q}

HandlerProfiles == {NewProfile(1, NoNames, 0), NewProfile(2, AnnNames, 0)}

\* The default document, and the same with a fact learned before.
HandlerDocuments ==
    LET k0 == _create_default_knowledge(0)
        fact == [fact |-> U_abc_xyz, learned_at |-> 0, learned_by |-> 1]
    IN  {k0, [k0 EXCEPT !.learned_facts = Put(NoDict, U_abc_xyz, fact)]}

InitHandlers ==
    /\ knowledge \in HandlerDocuments
    /\ disk = knowledge
    /\ auto_correction \in BOOLEAN
    /\ weather_cache = NoDict
    /\ api_key = FALSE
    /\ now = 1
    /\ followup = [u \in Users |-> NoPending]
    /\ last = NoTurn
    /\ SideInit
    /\ probe \in {[asked |-> FALSE, handler |-> h, message |-> m, profile |-> p,
                   before |-> knowledge, response |-> Fixed("none")] :
                     h \in HandlerNames, m \in HandlerMessages, p \in HandlerProfiles}

\* handler(user_message, user_profile)
CallHandler ==
    /\ ~probe.asked
    /\ \E h \in Handle(probe.handler, probe.message, probe.profile, knowledge,
                       now, auto_correction) :
          /\ knowledge' = h.knowledge
          /\ disk' = IF h.saved THEN h.knowledge ELSE disk
          /\ probe' = [probe EXCEPT !.asked = TRUE, !.response = h.response]
    /\ UNCHANGED <<auto_correction, weather_cache, api_key, now, followup, last,
                   side_vars>>

NextHandlers == CallHandler

SpecHandlers == InitHandlers /\ [][NextHandlers]_vars

----------------------------------------------------------------------------
(* A document that came from a file with top-level keys the program does   *)
(* not know: json.load keeps them in the dict and json.dump writes the     *)
(* whole dict.                                                             *)

ForeignKeys == Put(Put(NoDict, "schema_version", 7), "owner", 1)

InitForeign ==
    /\ knowledge = [_create_default_knowledge(0) EXCEPT !.extra = ForeignKeys]
    /\ disk = knowledge
    /\ auto_correction = TRUE
    /\ weather_cache = NoDict
    /\ api_key = FALSE
    /\ now = 0
    /\ followup = [u \in Users |-> NoPending]
    /\ probe = NoProbe
    /\ last = NoTurn
    /\ SideInit

\* Ordinary turns, one of them asking to remember a fact.
ForeignTurn ==
    \E user_id \in Users : \E user_message \in {U_zapomni, U_xyz, U_help_time} :
        Call(user_id, user_message, FALSE, NoContext)

NextForeign == ForeignTurn \/ CorrectionTurn \/ ClearMemory

SpecForeign == InitForeign /\ [][NextForeign]_vars

----------------------------------------------------------------------------
(* The dialog of the front end. The dispatcher routes each update to the   *)
(* first handler registered for it (src/main.py:715-735) and runs every    *)
(* handler as a task of its own (start_polling, src/main.py:1010), so a    *)
(* handler suspended in an await leaves the chat's state as it found it    *)
(* until it resumes. A chat is a private chat: its id is the user's id.    *)

\* The states a handler sets (src/main.py:770, 939, 941, 993).
FollowupStates == {"AWAITING_WEATHER_CITY", "AWAITING_CORRECTION"}

\* The first registered handler whose filter accepts a message: the command
\* handlers, then the handlers of three states, then handle_message.
route(state, kind, name) ==
    IF kind = "command" THEN name
    ELSE IF state = "AWAITING_WEATHER_CITY" THEN "handle_weather_city"
    ELSE IF state = "AWAITING_CORRECTION" THEN "handle_correction"
    ELSE IF state = "AWAITING_REMEMBER" THEN "handle_remember"
    ELSE "handle_message"

\* A handler up to the await it is suspended in: the document and the cache
\* it leaves, and what it does to the chat's state once it resumes: "idle"
\* (nothing), "clear", "lookup_and_clear", "set_weather" or "set_correction"
\* with the data it stores.
Started(k, dsk, cache, then, data, pending) ==
    [ knowledge |-> k, disk |-> dsk, cache |-> cache, then |-> then,
      data |-> data, pending |-> pending ]

\* handle_weather_city (src/main.py:845-857). A message without text raises
\* at message.text.strip() and a blank one is asked again: neither reaches
\* state.clear().
handle_weather_city(k, dsk, cache, text) ==
    IF strip(text) = Empty
    THEN {Started(k, dsk, cache, "idle", EmptyContext, NoPending)}
    ELSE {Started(k, dsk, cache, "lookup_and_clear", EmptyContext, NoPending)}

\* handle_correction (src/main.py:859-875): the reply is stored under the
\* question kept in the chat's data, then the state is cleared.
handle_correction(k, dsk, cache, has_key, auto, t, st, chat, text) ==
    { Started(r.knowledge, r.disk, r.cache, "clear", EmptyContext, NoPending) :
        r \in process_message(k, cache, has_key, auto, t, chat, text,
                              NamesOf(chat), TRUE, st.data) }

\* handle_remember (src/main.py:877-888)
handle_remember(k, dsk, cache, has_key, auto, t, chat, text) ==
    { Started(r.knowledge, r.disk, r.cache, "clear", EmptyContext, NoPending) :
        r \in process_message(k, cache, has_key, auto, t, chat,
                              kw_zapomni \o <<32>> \o text, NamesOf(chat),
                              FALSE, NoContext) }

\* handle_message (src/main.py:892-941): the turn of the engine, and the
\* follow-up state its outcome asks for.
handle_message(k, dsk, cache, has_key, auto, t, st, chat, text) ==
    IF text = Empty
    THEN {Started(k, dsk, cache, "idle", EmptyContext, NoPending)}
    ELSE IF st.state = "AWAITING_WEATHER_CITY"
    THEN handle_weather_city(k, dsk, cache, text)
    ELSE IF st.state = "AWAITING_CORRECTION"
    THEN handle_correction(k, dsk, cache, has_key, auto, t, st, chat, text)
    ELSE IF st.state = "AWAITING_REMEMBER"
    THEN handle_remember(k, dsk, cache, has_key, auto, t, chat, text)
    ELSE { IF r.outcome.needs_followup /\ r.outcome.action = "correction"
           THEN Started(r.knowledge, r.disk, r.cache, "set_correction",
                        QuestionContext(r.outcome.correction_data.question),
                        r.outcome.correction_data)
           ELSE IF r.outcome.needs_followup /\ r.outcome.action = "weather"
           THEN Started(r.knowledge, r.disk, r.cache, "set_weather", EmptyContext,
                        NoPending)
           ELSE Started(r.knowledge, r.disk, r.cache, "idle", EmptyContext,
                        NoPending) :
             r \in process_message(k, cache, has_key, auto, t, chat, text,
                                   NamesOf(chat), FALSE, NoContext) }

\* The handler the dispatcher picked, up to its await.
start_handler(what, k, dsk, cache, has_key, auto, t, st, chat, text) ==
    IF what = "weather"
    THEN {Started(k, dsk, cache, "set_weather", EmptyContext, NoPending)}
    ELSE IF what = "stats"
    THEN { Started(r.knowledge, r.disk, r.cache, "idle", EmptyContext, NoPending) :
             r \in process_message(k, cache, has_key, auto, t, chat, U_stat,
                                   NamesOf(chat), FALSE, NoContext) }
    ELSE IF what = "handle_weather_city"
    THEN handle_weather_city(k, dsk, cache, text)
    ELSE IF what = "handle_correction"
    THEN handle_correction(k, dsk, cache, has_key, auto, t, st, chat, text)
    ELSE IF what = "handle_remember"
    THEN handle_remember(k, dsk, cache, has_key, auto, t, chat, text)
    ELSE IF what = "handle_message"
    THEN handle_message(k, dsk, cache, has_key, auto, t, st, chat, text)
    \* start, help, knowledge, clearmemory, settings: an answer and no more
    ELSE {Started(k, dsk, cache, "idle", EmptyContext, NoPending)}

\* What a resumed handler does to the chat's state: state.clear(),
\* set_state, or set_data followed by set_state.
resume_state(h, st) ==
    IF h.pc \in {"clear", "lookup_and_clear"} THEN NoState
    ELSE IF h.pc = "set_weather" THEN [st EXCEPT !.state = "AWAITING_WEATHER_CITY"]
    ELSE IF h.pc = "set_correction"
    THEN [state |-> "AWAITING_CORRECTION", data |-> h.data]
    ELSE st

\* How many entries the three tables of learned things hold.
Entries(k) ==
    Len(k.qna) + Cardinality(DOMAIN k.learned_facts)
        + Cardinality(DOMAIN k.interaction_stats)

\* The document after a button was pressed (src/main.py:950-954, 956-960).
callback_knowledge(k, data) ==
    IF data = "clear_yes" THEN clear_memory(k) ELSE k

\* handle_callback (src/main.py:945-994): the document, the file, the
\* learning switch and the chat's state it leaves.
handle_callback(k, dsk, auto, st, data) ==
    [ knowledge |-> callback_knowledge(k, data),
      disk |-> IF data = "clear_yes" THEN callback_knowledge(k, data) ELSE dsk,
      auto |-> IF data = "toggle_learning" THEN ~auto ELSE auto,
      state |-> IF data = "reset_chat" THEN NoState
                ELSE IF data = "weather"
                THEN [st EXCEPT !.state = "AWAITING_WEATHER_CITY"]
                ELSE st ]

\* What the chats send: text, blank text, and the command that asks for a
\* city. Chat 2 asks, teaches and names a city.
Message(kind, name, text) == [kind |-> kind, name |-> name, text |-> text]

MessagesOf(chat) ==
    IF chat = 1
    THEN { Message("text", "", U_xyz), Message("text", "", U_parizh),
           Message("text", "", U_help_time), Message("text", "", U_blank),
           Message("command", "weather", Empty) }
    ELSE { Message("text", "", U_xyz), Message("text", "", U_parizh) }

\* The buttons of the keyboards the bot sends that a chat presses.
DialogCallbacks == {"clear_yes", "clear_no", "reset_chat"}

\* What the provider answers to the lookups of the dialog.
DialogReplies == { [status |-> 200, data |-> "sunny"], [status |-> 404, data |-> ""] }

InitDialog ==
    /\ knowledge = _create_default_knowledge(0)
    /\ disk = _create_default_knowledge(0)
    /\ auto_correction = TRUE
    /\ weather_cache = NoDict
    /\ api_key = TRUE
    /\ now = 0
    /\ followup = [u \in Users |-> NoPending]
    /\ probe = NoProbe
    /\ last = NoTurn
    /\ SideInit

\* The dispatcher takes a message and runs its handler up to the await the
\* handler is suspended in.
Receive ==
    /\ updates < MaxUpdates
    /\ \E chat \in Users : \E m \in MessagesOf(chat) : \E i \in TaskIds :
        /\ handlers[i].pc = "idle"
        /\ \A j \in TaskIds : handlers[j].pc = "idle" => i <= j
        /\ LET what == route(fsm[chat].state, m.kind, m.name)
           IN  \E s \in start_handler(what, knowledge, disk, weather_cache, api_key,
                                      auto_correction, now, fsm[chat], chat, m.text) :
                /\ knowledge' = s.knowledge
                /\ disk' = s.disk
                /\ weather_cache' = s.cache
                /\ handlers' = [handlers EXCEPT ![i] =
                       IF s.then = "idle" THEN NoHandler
                       ELSE [pc |-> s.then, chat |-> chat, what |-> what,
                             text |-> m.text, data |-> s.data,
                             pending |-> s.pending]]
                /\ consumed' = [consumed EXCEPT ![chat] =
                       IF /\ m.kind = "text"
                          /\ m.text # Empty
                          /\ fsm[chat].state \in FollowupStates
                       THEN @ + 1 ELSE @]
                /\ dialog_log' = [ kind |-> "receive", chat |-> chat, what |-> what,
                                   text |-> m.text, before |-> fsm[chat],
                                   after |-> fsm[chat], pending |-> s.pending,
                                   size |-> 0 ]
    /\ updates' = updates + 1
    /\ UNCHANGED <<auto_correction, api_key, now, followup, probe, last, fsm,
                   weather_vars, task_vars, store_vars>>

\* A suspended handler runs to its end: the lookup of the city, and what
\* the handler does to the chat's state.
Resume ==
    \E i \in TaskIds :
        /\ handlers[i].pc # "idle"
        /\ LET h == handlers[i]
               lookup == h.pc = "lookup_and_clear"
           IN  \E reply \in IF lookup THEN DialogReplies ELSE {CHOOSE r \in DialogReplies : TRUE} :
                /\ weather_cache' =
                       IF lookup
                       THEN get_weather(weather_cache, api_key, strip(h.text), now,
                                        reply).cache
                       ELSE weather_cache
                /\ fsm' = [fsm EXCEPT ![h.chat] = resume_state(h, @)]
                /\ consumed' = [consumed EXCEPT ![h.chat] =
                       IF h.pc \in {"set_weather", "set_correction"} THEN 0 ELSE @]
                /\ dialog_log' = [ kind |-> "resume", chat |-> h.chat, what |-> h.what,
                                   text |-> h.text, before |-> fsm[h.chat],
                                   after |-> resume_state(h, fsm[h.chat]),
                                   pending |-> h.pending, size |-> 0 ]
        /\ handlers' = [handlers EXCEPT ![i] = NoHandler]
    /\ UNCHANGED <<knowledge, disk, auto_correction, api_key, now, followup, probe,
                   last, updates, weather_vars, task_vars, store_vars>>

\* A chat presses a button: handle_callback from its await to its end.
Callback ==
    /\ updates < MaxUpdates
    /\ \E chat \in {1} : \E data \in DialogCallbacks :
        LET r == handle_callback(knowledge, disk, auto_correction, fsm[chat], data)
        IN  /\ knowledge' = r.knowledge
            /\ disk' = r.disk
            /\ auto_correction' = r.auto
            /\ fsm' = [fsm EXCEPT ![chat] = r.state]
            /\ consumed' = [consumed EXCEPT ![chat] =
                   IF data = "weather" THEN 0 ELSE @]
            /\ dialog_log' = [ kind |-> "callback", chat |-> chat, what |-> data,
                               text |-> Empty, before |-> fsm[chat],
                               after |-> r.state, pending |-> NoPending,
                               size |-> Entries(knowledge) ]
    /\ updates' = updates + 1
    /\ UNCHANGED <<weather_cache, api_key, now, followup, probe, last, handlers,
                   weather_vars, task_vars, store_vars>>

NextDialog == Receive \/ Resume \/ Callback

SpecDialog == InitDialog /\ [][NextDialog]_vars

----------------------------------------------------------------------------
(* Properties. last holds the latest call of process_message: its input,   *)
(* the document before and after it, and what it returned.                 *)

\* A call of process_message has happened.
Called == last.user # 0

\* The counters of a user's profile in a document; a user without a profile
\* has counted nothing.
ContributionsIn(k, user_id) ==
    IF user_id \in DOMAIN k.user_profiles
    THEN k.user_profiles[user_id].learned_contributions ELSE 0

MessagesIn(k, user_id) ==
    IF user_id \in DOMAIN k.user_profiles
    THEN k.user_profiles[user_id].total_messages ELSE 0

\* The latest call answers the question the same user's previous turn left
\* pending: the correction turn of a round trip.
AnswersPending ==
    /\ Called
    /\ last.is_correction
    /\ last.followup.present
    /\ last.correction_data = QuestionContext(last.followup.question)

\* C1: when a user's turn returned a teach-me follow-up with pending question
\* Q and the user's next turn is the correction turn answering Q with A, then
\* afterwards qna[lower(Q)] is A as given, learned_qna and
\* corrections_received have each grown by exactly 1 and the user's
\* learned_contributions has grown by exactly 1, whether or not lower(Q) was
\* a key of qna before.
CorrectionRoundTrip ==
    AnswersPending =>
        LET key == lower(last.followup.question)
        IN  /\ qna_has(last.after.qna, key)
            /\ \A i \in 1..Len(last.after.qna) :
                   last.after.qna[i].q = key => last.after.qna[i].a = last.message
            /\ last.after.statistics.learned_qna
                   = last.before.statistics.learned_qna + 1
            /\ last.after.statistics.corrections_received
                   = last.before.statistics.corrections_received + 1
            /\ ContributionsIn(last.after, last.user)
                   = ContributionsIn(last.before, last.user) + 1

\* C1 witness: the round trip replaces the answer another user stored for the
\* same question in the meantime.
CorrectionRoundTripOverwrites ==
    /\ AnswersPending
    /\ qna_has(last.before.qna, lower(last.followup.question))
    /\ qna_get(last.before.qna, lower(last.followup.question)) # last.message
    /\ qna_get(last.after.qna, lower(last.followup.question)) = last.message

\* C2: every call flagged as a correction reply, whatever its context, ends
\* in the correction stage: it returns no follow-up and no follow-up kind and
\* leaves interaction_stats and learned_facts as they were.
FlaggedCorrectionShortCircuits ==
    (Called /\ last.is_correction) =>
        /\ last.stage = "correction"
        /\ ~last.outcome.needs_followup
        /\ last.outcome.action = "None"
        /\ last.after.interaction_stats = last.before.interaction_stats
        /\ last.after.learned_facts = last.before.learned_facts

\* C3: total_users is the number of keys of user_profiles; a call adds the
\* key of its user when the user had none and no other key, and no key is
\* ever lost, by a call or by a memory clear.
TotalUsersCountsProfiles ==
    /\ knowledge.statistics.total_users = Cardinality(DOMAIN knowledge.user_profiles)
    /\ Called =>
          /\ DOMAIN last.after.user_profiles
                = DOMAIN last.before.user_profiles \cup {last.user}
          /\ DOMAIN knowledge.user_profiles = DOMAIN last.after.user_profiles

\* C3 witness: a user who has a profile takes another turn, after a memory
\* clear, while a second user has a profile too.
RepeatedUserAfterClear ==
    /\ Called
    /\ last.user \in DOMAIN last.before.user_profiles
    /\ Cardinality(DOMAIN knowledge.user_profiles) = 2
    /\ last.before.qna = <<>>
    /\ knowledge.statistics.total_users = 2

\* C4: every call for a user adds exactly 1 to the user's total_messages and
\* exactly 1 to statistics.total_messages, in whichever stage it ends, and
\* leaves every other user's profile as it was.
EveryTurnCountsOneMessage ==
    Called =>
        /\ last.after.statistics.total_messages
               = last.before.statistics.total_messages + 1
        /\ MessagesIn(last.after, last.user) = MessagesIn(last.before, last.user) + 1
        /\ \A u \in DOMAIN last.before.user_profiles \ {last.user} :
               last.after.user_profiles[u] = last.before.user_profiles[u]

\* C4 witness: a stored correction, counted while another user has a profile
\* with messages of its own.
CorrectionTurnCounted ==
    /\ Called
    /\ last.stage = "correction"
    /\ \E u \in DOMAIN last.before.user_profiles \ {last.user} :
           last.before.user_profiles[u].total_messages > 0
    /\ MessagesIn(last.before, last.user) > 0

\* The rules whose pattern is found in the lower-cased utterance.
RulesFoundIn(user_message) ==
    {i \in 1..Len(rules) : re_search(rules[i].alts, lower(user_message))}

\* RulesFoundIn, computed once for each text
MatchingRulesTable == {<<t, RulesFoundIn(t)>> : t \in Texts}
MatchingRules(user_message) == Lookup(MatchingRulesTable, user_message)

\* The replies each handler is written to give (src/main.py:253-441).
HandlerTemplates(h) ==
    CASE h = "_greet" -> {"greet", "greet_name"}
      [] h = "_goodbye" -> {"goodbye", "goodbye_name"}
      [] h = "_how_are_you" -> {"how_are_you"}
      [] h = "_thank_you" -> {"thank_you"}
      [] h = "_about_me" -> {"about_me"}
      [] h = "_about_creator" -> {"facts_creator"}
      [] h = "_help" -> {"help"}
      [] h = "_time" -> {"time"}
      [] h = "_date" -> {"date"}
      [] h = "_remember_info" -> {"remembered", "remember_what"}
      [] h = "_recall_info" -> {"recall", "verbatim", "know_little"}
      [] h = "_clear_memory" -> {"use_clearmemory"}
      [] h = "_how_i_learn" -> {"how_i_learn"}
      [] h = "_weather_handler" -> {"weather_hint"}
      [] h = "_stats_handler" -> {"stats"}
      [] h = "_currency_handler" -> {"currency"}
      [] h = "_news_handler" -> {"news"}
      [] h = "_joke_handler" -> {"joke"}

\* C5: a turn that is not a correction and whose lower-cased utterance
\* matches at least one rule pattern returns no follow-up and a reply of the
\* handler of the first matching pattern in registration order; no rule
\* registered later answers.
FirstMatchingRuleAnswers ==
    (Called /\ ~last.is_correction /\ MatchingRules(last.message) # {}) =>
        LET first == Least(MatchingRules(last.message))
        IN  /\ last.stage = "rule"
            /\ last.rule = first
            /\ last.outcome.response.tpl \in HandlerTemplates(rules[first].handler)
            /\ ~last.outcome.needs_followup
            /\ last.outcome.action = "None"

\* C5 witness: "Help time" matches the help rule and the time rule, and the
\* help rule, registered first, answers.
HelpAnswersBeforeTime ==
    /\ Called /\ ~last.is_correction
    /\ last.message = U_help_time
    /\ Cardinality(MatchingRules(last.message)) = 2
    /\ last.outcome.response.tpl = "help"

\* What decides each stage, read from the utterance and the document the
\* turn started from.
RuleApplies(user_message) == MatchingRules(user_message) # {}

QnaApplies(qna, user_message) ==
    LET answer == _check_qna_match(qna, user_message)
    IN  answer.found /\ answer.answer # Empty

LowConfidence(qna, user_message) ==
    FracLess(_calculate_confidence(qna, user_message),
             <<confidence_threshold_num, confidence_threshold_den>>)

\* C6: on a turn that is not a correction the stages are tried in the order
\* rules, QnA, weather, teach-me, fallback and the first that applies decides:
\* a stored answer is returned only when no rule matches, even for an
\* utterance equal to a stored question; a weather outcome only when neither a
\* rule nor the QnA stage answers; teach-me or fallback only when none of the
\* three applies. The QnA stage applies when the matcher returns an answer
\* with text.
StagesInOrder ==
    (Called /\ ~last.is_correction) =>
        LET m == last.message
            qna == last.before.qna
            byRule == RuleApplies(m)
            byQna == ~byRule /\ QnaApplies(qna, m)
            byWeather == ~byRule /\ ~byQna /\ has_weather_word(m)
        IN  /\ (last.stage = "rule") = byRule
            /\ (last.stage = "qna") = byQna
            /\ (last.stage = "weather") = byWeather
            /\ (last.stage \in {"teach", "fallback"})
                   = (~byRule /\ ~byQna /\ ~byWeather)
            /\ byRule => last.outcome.response.tpl
                             \in HandlerTemplates(rules[last.rule].handler)
            /\ byQna => last.outcome.response
                            = Verbatim(_check_qna_match(qna, m).answer)
            /\ last.stage = "teach" => last.outcome.action = "correction"
            /\ last.stage = "fallback" => last.outcome.response.tpl = "fallback"

\* C6 witness: the utterance is a stored question, and a rule answers it.
RuleShadowsStoredQuestion ==
    /\ Called /\ ~last.is_correction
    /\ qna_has(last.before.qna, lower(last.message))
    /\ QnaApplies(last.before.qna, last.message)
    /\ last.stage = "rule"
    /\ last.outcome.response.tpl = "about_me"

\* C7: an utterance with a weather keyword and no city gets the prompt with
\* a weather follow-up; one with the keyword followed by a city gets the
\* answer of the weather lookup with no follow-up.
WeatherStageAnswers ==
    (Called /\ ~last.is_correction /\ has_weather_word(last.message)) =>
        IF weather_city_group(lower(last.message)).found
        THEN /\ last.stage = "weather"
             /\ ~last.outcome.needs_followup
        ELSE /\ last.stage = "weather"
             /\ last.outcome.needs_followup
             /\ last.outcome.action = "weather"

\* C8: when no rule, no QnA entry and no weather keyword answers a turn that
\* is not a correction, the turn asks to be taught (follow-up of kind
\* correction, pending question the utterance as typed) exactly when the
\* confidence is below the threshold and auto-learning is on, and otherwise
\* gives a fallback phrasing with no follow-up; with auto-learning off no
\* call returns a follow-up of kind correction.
TeachMeIffLowConfidenceAndAuto ==
    /\ (/\ Called /\ ~last.is_correction
        /\ ~RuleApplies(last.message)
        /\ ~QnaApplies(last.before.qna, last.message)
        /\ ~has_weather_word(last.message))
       => IF LowConfidence(last.before.qna, last.message) /\ last.auto
          THEN last.outcome
                   = Outcome(Response("not_sure", "", last.message, <<>>),
                             TRUE, "correction", Pending(last.message))
          ELSE /\ last.outcome.response.tpl = "fallback"
               /\ ~last.outcome.needs_followup
               /\ last.outcome.action = "None"
               /\ last.outcome.correction_data = NoPending
    /\ (Called /\ ~last.auto) => last.outcome.action # "correction"

\* C8 witness: auto-learning is off, the confidence is below the threshold,
\* and the turn gets a fallback phrasing.
NoTeachingWhileOff ==
    /\ Called /\ ~last.is_correction /\ ~last.auto
    /\ ~RuleApplies(last.message)
    /\ ~QnaApplies(last.before.qna, last.message)
    /\ LowConfidence(last.before.qna, last.message)
    /\ last.outcome.response.tpl = "fallback"

\* C9: every key of qna is lower-cased.
QnaKeysLowerCased ==
    \A i \in 1..Len(knowledge.qna) : lower(knowledge.qna[i].q) = knowledge.qna[i].q

\* C9 witness: a question typed with capitals has been learned.
CapitalisedQuestionLearned ==
    /\ Called /\ last.stage = "correction"
    /\ lower(last.correction_data.question) # last.correction_data.question
    /\ knowledge = last.after
    /\ qna_has(knowledge.qna, lower(last.correction_data.question))

\* C10: the matcher returns the answer of the key equal to the lower-cased
\* utterance when there is one; otherwise the answer of the first stored
\* question, in stored order, that is inside the utterance or has the
\* utterance inside it; otherwise the answer of the first stored question
\* that shares at least two keywords with the utterance, however many more
\* a later one shares; otherwise nothing.
QnaResolutionOrder ==
    probe.asked =>
        LET qna == probe.qna
            low == lower(probe.message)
            Exact(i) == qna[i].q = low
            Inside(i) == IsSubstring(qna[i].q, low) \/ IsSubstring(low, qna[i].q)
            Shared(i) == Range(extract_keywords(probe.message))
                             \cap Range(extract_keywords(qna[i].q))
            Shares(i) == Cardinality(Shared(i)) >= 2
            FirstOf(P(_), i) == P(i) /\ \A j \in 1..(i - 1) : ~P(j)
            idx == 1..Len(qna)
        IN  IF \E i \in idx : Exact(i)
            THEN \E i \in idx : Exact(i) /\ probe.result = Match(qna[i].a)
            ELSE IF \E i \in idx : Inside(i)
            THEN \E i \in idx : FirstOf(Inside, i) /\ probe.result = Match(qna[i].a)
            ELSE IF \E i \in idx : Shares(i)
            THEN \E i \in idx : FirstOf(Shares, i) /\ probe.result = Match(qna[i].a)
            ELSE probe.result = NoMatch

\* C10 witness: no key equals or contains the utterance or lies inside it, two
\* stored questions share keywords with it, the second more than the first,
\* and the first one's answer is returned.
FirstKeywordMatchWins ==
    /\ probe.asked
    /\ probe.message = U_qxa
    /\ Len(probe.qna) = 2
    /\ probe.qna[1].q = lower(U_xyz)
    /\ probe.qna[2].q = U_abc_xyz
    /\ probe.qna[1].a # probe.qna[2].a
    /\ probe.result = Match(probe.qna[1].a)

\* Equality of fractions <<n, d>>, d > 0.
FracEq(a, b) == a[1] * b[2] = b[1] * a[2]

\* C11: an utterance with no extractable keyword has confidence 0.0 on every
\* question table, also on one that holds the utterance itself as a taught
\* question.
NoKeywordsNoConfidence ==
    (probe.asked /\ extract_keywords(probe.message) = <<>>) =>
        FracEq(probe.result, <<0, 1>>)

\* C12: the confidence is 0.9 when the lower-cased utterance is a stored
\* question; otherwise it is the greatest, over the stored questions, of the
\* number of shared keywords divided by the larger of the sizes of the two
\* keyword sets (0 when there is nothing to compare); it lies between 0 and 1.
ConfidenceIsBestSetRatio ==
    probe.asked =>
        LET qna == probe.qna
            words == Range(extract_keywords(probe.message))
            Words(i) == Range(extract_keywords(qna[i].q))
            Larger(i) == IntMax(Cardinality(words), Cardinality(Words(i)))
            Ratio(i) == <<Cardinality(words \cap Words(i)), Larger(i)>>
            compared == {i \in 1..Len(qna) : Larger(i) > 0}
        IN  /\ ~FracLess(probe.result, <<0, 1>>)
            /\ ~FracLess(<<1, 1>>, probe.result)
            /\ IF qna_has(qna, lower(probe.message))
               THEN FracEq(probe.result, <<9, 10>>)
               ELSE IF compared = {} THEN FracEq(probe.result, <<0, 1>>)
               ELSE /\ \E i \in compared : FracEq(probe.result, Ratio(i))
                    /\ \A i \in compared : ~FracLess(probe.result, Ratio(i))

----------------------------------------------------------------------------
(* The weather lookup.                                                     *)

\* The entry a call found for its city was written less than cache_duration
\* minutes before the call started; the clock counts tens of minutes.
FreshEntry(call) ==
    call.before.present /\ (call.time - call.before.time) * 10 < cache_duration

\* Two calls for one city, whatever the spelling, started less than
\* cache_duration minutes apart.
CloseCalls(a, b) ==
    /\ a.seen /\ b.seen
    /\ lower(a.city) = lower(b.city)
    /\ (b.time - a.time) * 10 < cache_duration
    /\ (a.time - b.time) * 10 < cache_duration

\* C13 as stated: any two calls of get_weather for the same city made within
\* 30 minutes of each other ask the provider at most once in total and
\* return the same text, and a call made 30 minutes or more after the entry
\* was cached asks the provider again.
AnyTwoCallsShareOneAnswer ==
    [][ (weather_log' # weather_log /\ CloseCalls(weather_log, weather_log'))
        => /\ ~(weather_log.called /\ weather_log'.called)
           /\ weather_log'.text = weather_log.text ]_vars

\* C13 amended: a call of get_weather that starts less than 30 minutes after
\* the time stamped on the cache entry of its lower-cased city does not ask
\* the provider and returns the text of that entry; a call that finds no
\* entry, or one stamped 30 minutes or more before, asks the provider when
\* an API key is configured.
FreshEntryAnswersAlone ==
    weather_log.seen =>
        /\ FreshEntry(weather_log) =>
              /\ ~weather_log.called
              /\ weather_log.text = weather_log.before.text
        /\ (~FreshEntry(weather_log) /\ api_key) => weather_log.called

\* A call spelled with a capital is answered, twenty minutes on, from the
\* entry stored under the lower-cased city.
CapitalisedCityServedFromCache ==
    /\ weather_log.seen
    /\ weather_log.city = U_moskva
    /\ FreshEntry(weather_log)
    /\ weather_log.time = weather_log.before.time + 2
    /\ ~weather_log.called

\* The four messages get_weather has for a lookup without weather.
CityNotFound(call) == call.text = Response("city_not_found", "", call.city, <<>>)
ErrorCode(call) == call.text = Response("weather_error_code", "", Empty, <<call.status>>)
RequestFailed(call) == call.text.tpl = "weather_exception"
NeedsApiKey(call) == call.text = Fixed("need_api_key")

\* The call that just returned wrote its answer into the cache under the
\* lower-cased city, stamped with the time the call started.
WroteEntry(call) ==
    weather_cache' = Put(weather_cache, lower(call.city),
                         [time |-> call.time, text |-> call.text])

\* C14: the weather cache is written only when the provider answers 200. A
\* 404, any other status, a failed or timed-out request and a missing API key
\* each return their own message and leave the cache as it was, and without
\* an API key the provider is never asked.
CacheWrittenOnlyOn200 ==
    /\ [](weather_log.seen =>
            /\ (weather_log.called /\ weather_log.status = 404) => CityNotFound(weather_log)
            /\ (weather_log.called /\ weather_log.status = 500) => ErrorCode(weather_log)
            /\ (weather_log.called /\ weather_log.status = 0) => RequestFailed(weather_log)
            /\ (~weather_log.called /\ ~FreshEntry(weather_log)) => NeedsApiKey(weather_log)
            /\ ~api_key => ~weather_log.called)
    /\ [](~api_key => \A c \in Callers : requests[c].pc = "idle")
    /\ [][ /\ weather_cache' # weather_cache =>
                /\ weather_log'.called /\ weather_log'.status = 200
                /\ weather_log'.text.tpl = "weather"
                /\ WroteEntry(weather_log')
           /\ (weather_log' # weather_log /\ weather_log'.text.tpl # "weather") =>
                weather_cache' = weather_cache
           /\ (weather_log' # weather_log /\ ~weather_log'.called) =>
                weather_cache' = weather_cache ]_vars

\* The provider answered 404 and the cache still has no entry for the city.
NotFoundLeftUncached ==
    /\ weather_log.seen /\ weather_log.called
    /\ weather_log.status = 404
    /\ CityNotFound(weather_log)
    /\ lower(weather_log.city) \notin DOMAIN weather_cache

\* The calls waiting for the provider's answer about one city key.
InFlight(key) ==
    {c \in Callers : requests[c].pc = "waiting" /\ lower(requests[c].city) = key}

\* C15: however calls of get_weather for one city key interleave, the race
\* between the check of the cache and its write costs at most one redundant
\* provider call: beside the one call the key needs, at most one more is
\* with the provider at any time.
AtMostOneRedundantCall ==
    \A c \in Callers : Cardinality(InFlight(lower(CityOf(c)))) <= 2

\* C17: get_weather always ends with a text and never raises to its caller:
\* a timeout, a failed request, a status other than 200 and a body it cannot
\* read each become an error text, and no call stays pending.
LookupAlwaysReturnsText ==
    /\ [](weather_log.seen =>
            /\ ~weather_log.raised
            /\ weather_log.text # Fixed("none")
            /\ (weather_log.called /\ weather_log.status # 200) =>
                  \/ CityNotFound(weather_log)
                  \/ ErrorCode(weather_log)
                  \/ RequestFailed(weather_log))
    /\ \A c \in Callers :
          (requests[c].pc = "waiting") ~> (requests[c].pc = "idle")

\* A request that ran into the client's timeout came back as an error text,
\* and no call is waiting.
TimeoutBecameText ==
    /\ weather_log.seen /\ weather_log.called
    /\ weather_log.status = 0
    /\ weather_log.text = Response("weather_exception", "timeout", Empty, <<>>)
    /\ \A c \in Callers : requests[c].pc = "idle"

----------------------------------------------------------------------------
(* Turns started together.                                                 *)

Finished == {i \in TaskIds : tasks[i].pc = "done"}

\* C16: turns started together never interleave inside a read-modify-write
\* of the document. Whenever no turn is running, the document is what the
\* finished turns give when run one after the other, total_messages has
\* grown by one per finished turn, and every message is counted in a
\* profile.
TurnsAreSerial ==
    running = 0 =>
        /\ knowledge = serial
        /\ knowledge.statistics.total_messages = Cardinality(Finished)
        /\ MessagesIn(knowledge, 1) + MessagesIn(knowledge, 2) = Cardinality(Finished)

\* Two turns of one user, started together, have both returned.
TwoTurnsOfOneUserDone ==
    /\ Cardinality(Finished) >= 2
    /\ \E i, j \in Finished : i # j /\ tasks[i].user = tasks[j].user
    /\ running = 0

----------------------------------------------------------------------------
(* The store.                                                              *)

\* C18: process_message never raises: on every document the load returned,
\* one that lacks top-level keys included, the turn ends with an answer.
TurnNeverRaises == store_log.fault = "none"

\* How the writes of the latest operation that wrote ended.
LastWrite ==
    IF store_log.writes = <<>> THEN "none"
    ELSE store_log.writes[Len(store_log.writes)]

\* What _save_knowledge is given of a document: everything but the tally of
\* interactions, which is kept after the last save of a turn.
Saved(k) == [k EXCEPT !.interaction_stats = NoDict]

\* C19: a failed save neither aborts the turn nor rolls anything back. The
\* turn returns, the document in memory has every change of every turn
\* whatever became of the writes, and once a save succeeds the file holds
\* the document in memory, the changes whose write failed included.
FailedSaveKeepsMemory ==
    phase = "serving" =>
        /\ present = TopKeys => store_log.fault = "none"
        /\ "statistics" \in present =>
              knowledge.statistics.total_messages = store_log.turns
        /\ LastWrite = "written" =>
              /\ file = Document(present)
              /\ Saved(disk) = Saved(knowledge)

\* The writes of the first turn failed and those of the second succeeded:
\* the file has both turns.
FailedWriteThenWritten ==
    /\ store_log.found = "document"
    /\ store_log.writes = <<"failed", "written">>
    /\ store_log.turns = 2
    /\ knowledge.statistics.total_messages = 2
    /\ file.kind = "document"
    /\ disk.statistics.total_messages = 2

\* C20: the load returns the persisted document when it exists and parses.
\* When there is none it returns the default document (seed facts, sample
\* questions, zeroed counters, no profiles) and writes it; when the file
\* cannot be parsed it does not fail, returns the default document and
\* writes it over the unreadable file.
LoadReturnsDocumentOrDefault ==
    [][ (phase = "start" /\ phase' = "serving") =>
          /\ file.kind = "document" =>
                /\ knowledge' = disk
                /\ present' = file.keys
                /\ file' = file /\ disk' = disk
          /\ file.kind \in {"absent", "unreadable"} =>
                /\ knowledge' = _create_default_knowledge(now)
                /\ knowledge'.facts = "default"
                /\ knowledge'.qna = seed_qna
                /\ knowledge'.user_profiles = NoDict
                /\ knowledge'.statistics.total_messages = 0
                /\ knowledge'.statistics.total_users = 0
                /\ knowledge'.statistics.learned_qna = 0
                /\ present' = TopKeys
                /\ store_log'.writes # <<>>
                /\ store_log'.writes = <<"written">> =>
                      /\ file' = Document(TopKeys)
                      /\ disk' = knowledge' ]_vars

\* The file did not parse; the engine serves the default document, which is
\* now what the file holds.
UnreadableFileReplaced ==
    /\ phase = "serving"
    /\ store_log.found = "unreadable"
    /\ store_log.turns = 0
    /\ file = Document(TopKeys)
    /\ knowledge = _create_default_knowledge(0)
    /\ disk = knowledge

----------------------------------------------------------------------------
(* The profile lookup.                                                     *)

\* The name a lookup leaves in a profile: the supplied one when it is not
\* empty and differs from the stored one.
NameKept(stored, supplied) ==
    IF Truthy(supplied) /\ supplied # stored THEN supplied ELSE stored

\* C21: get_or_create_user_profile on a stored user replaces username,
\* first_name and last_name only by a supplied value that is not empty and
\* differs, leaves counters and preferences alone, stamps last_active with
\* the current time and saves; on a new user it creates the profile with
\* conversation_count 1 and no messages or contributions.
LookupKeepsOrCreatesProfile ==
    probe.asked =>
        LET stored == probe.before.user_profiles
            new == knowledge.user_profiles[probe.user]
            names == probe.names
        IN  /\ probe.user \in DOMAIN knowledge.user_profiles
            /\ new.last_active = now
            /\ disk = knowledge
            /\ probe.user \in DOMAIN stored =>
                  LET old == stored[probe.user]
                  IN  /\ new.username = NameKept(old.username, names.username)
                      /\ new.first_name = NameKept(old.first_name, names.first_name)
                      /\ new.last_name = NameKept(old.last_name, names.last_name)
                      /\ new.conversation_count = old.conversation_count
                      /\ new.total_messages = old.total_messages
                      /\ new.learned_contributions = old.learned_contributions
                      /\ new.preferences = old.preferences
            /\ probe.user \notin DOMAIN stored =>
                  /\ new.conversation_count = 1
                  /\ new.total_messages = 0
                  /\ new.learned_contributions = 0
                  /\ new.username = names.username
                  /\ new.first_name = names.first_name
                  /\ new.last_name = names.last_name

\* A stored user came back with a new username and an empty last name: the
\* username was replaced, the last name and the counters were kept.
RenamedUserKeepsLastName ==
    /\ probe.asked
    /\ probe.user \in DOMAIN probe.before.user_profiles
    /\ probe.before.user_profiles[probe.user].username = "ann"
    /\ probe.names.username = "bob"
    /\ probe.names.last_name = ""
    /\ knowledge.user_profiles[probe.user].username = "bob"
    /\ knowledge.user_profiles[probe.user].last_name = "Lee"
    /\ knowledge.user_profiles[probe.user].total_messages = 2

----------------------------------------------------------------------------
(* What a turn returns and leaves behind.                                  *)

\* C22: every result of process_message is well-formed: its action is none,
\* correction or weather; it asks for a follow-up exactly when the action is
\* not none; and it carries a pending question exactly when the action is
\* correction, the question being the utterance of the turn.
OutcomeWellFormed ==
    LET o == last.outcome
    IN  /\ o.action \in {"None", "correction", "weather"}
        /\ o.needs_followup <=> o.action # "None"
        /\ o.correction_data.present <=> o.action = "correction"
        /\ o.correction_data.present => o.correction_data.question = last.message

\* A turn asked to be taught the answer to its own utterance.
TeachMeCarriesUtterance ==
    /\ last.user # 0
    /\ last.outcome.action = "correction"
    /\ last.outcome.needs_followup
    /\ last.outcome.correction_data = Pending(U_xyz)
    /\ last.message = U_xyz

\* C23: the store is written after every step that changes the document:
\* whenever process_message has returned and no write failed, the file
\* holds the document in memory, the interaction_stats entry of a turn a
\* rule or a stored question answered included.
FileHoldsMemoryAfterTurn == disk = knowledge

\* C24: a cache entry is stamped with the time the provider's answer was
\* stored, and the stamp of a city key never moves backwards, also when two
\* calls for the key overlap.
StampIsStorageTime ==
    [][ \A key \in DOMAIN weather_cache' :
          (key \notin DOMAIN weather_cache \/ weather_cache'[key] # weather_cache[key])
          => /\ weather_cache'[key].time = now
             /\ key \in DOMAIN weather_cache =>
                   weather_cache'[key].time >= weather_cache[key].time ]_vars

\* a comes before b, or is b, in the order of sorted(): by code points, a
\* prefix first.
TextUpTo(a, b) ==
    \/ a = b
    \/ \E n \in 1..(Len(a) + 1) :
          /\ \A m \in 1..(n - 1) : m <= Len(b) /\ a[m] = b[m]
          /\ \/ n > Len(a) /\ n <= Len(b)
             \/ n <= Len(a) /\ n <= Len(b) /\ a[n] < b[n]

\* The two least keywords of a list of two or more, joined by a space.
LeastPairKey(keywords) ==
    LET places == 1..Len(keywords)
        pair == CHOOSE p \in places \X places :
                    /\ p[1] # p[2]
                    /\ TextUpTo(keywords[p[1]], keywords[p[2]])
                    /\ \A n \in places \ {p[1], p[2]} :
                          TextUpTo(keywords[p[2]], keywords[n])
    IN  keywords[pair[1]] \o <<32>> \o keywords[pair[2]]

\* The count interaction_stats holds for a key and an answer.
Tally(k, key, answer) ==
    IF key \in DOMAIN k.interaction_stats
    THEN IF answer \in DOMAIN k.interaction_stats[key]
         THEN k.interaction_stats[key][answer] ELSE 0
    ELSE 0

\* The turn recorded in last was answered by a rule or a stored question and
\* its utterance has two keywords or more.
LearnsFromTurn ==
    /\ last.stage \in {"rule", "qna"}
    /\ Len(_extract_keywords(lower(last.message))) >= 2

\* C25: a turn answered by a rule or by a stored question, whose utterance
\* has two keywords or more, adds one to interaction_stats[k][answer], k
\* being the two least keywords joined by a space and answer the response
\* returned, and changes no other entry; any other turn leaves
\* interaction_stats as it was.
InteractionSignalCountsOnce ==
    last.user # 0 =>
        IF LearnsFromTurn
        THEN LET key == LeastPairKey(_extract_keywords(lower(last.message)))
                 answer == last.outcome.response
             IN  /\ Tally(last.after, key, answer) = Tally(last.before, key, answer) + 1
                 /\ \A k \in DOMAIN last.after.interaction_stats :
                       \A a \in DOMAIN last.after.interaction_stats[k] :
                          (k # key \/ a # answer) =>
                             Tally(last.after, k, a) = Tally(last.before, k, a)
                 /\ \A k \in DOMAIN last.before.interaction_stats :
                       /\ k \in DOMAIN last.after.interaction_stats
                       /\ DOMAIN last.before.interaction_stats[k]
                             \subseteq DOMAIN last.after.interaction_stats[k]
        ELSE last.after.interaction_stats = last.before.interaction_stats

\* The help rule answered the same two-keyword utterance a second time: its
\* counter stands at two.
HelpAnsweredTwiceTallied ==
    /\ last.stage = "rule"
    /\ last.message = U_help_time
    /\ LearnsFromTurn
    /\ Tally(last.after, LeastPairKey(_extract_keywords(lower(U_help_time))),
             last.outcome.response) = 2

----------------------------------------------------------------------------
(* The rule handlers.                                                      *)

\* C26: no rule handler changes the document but the one that remembers a
\* fact: any other leaves facts, qna, learned_facts, statistics,
\* user_profiles and interaction_stats as they were, and the remembering
\* handler changes learned_facts only.
OnlyRememberChangesDocument ==
    probe.asked =>
        /\ knowledge.facts = probe.before.facts
        /\ knowledge.qna = probe.before.qna
        /\ knowledge.statistics = probe.before.statistics
        /\ knowledge.user_profiles = probe.before.user_profiles
        /\ knowledge.interaction_stats = probe.before.interaction_stats
        /\ probe.handler # "_remember_info" =>
              /\ knowledge.learned_facts = probe.before.learned_facts
              /\ knowledge = probe.before

\* The remembering handler stored a fact beside the one learned before.
RememberAddedFact ==
    /\ probe.asked
    /\ probe.handler = "_remember_info"
    /\ probe.response.tpl = "remembered"
    /\ Cardinality(DOMAIN knowledge.learned_facts) = 2
    /\ Cardinality(DOMAIN probe.before.learned_facts) = 1
    /\ disk = knowledge

----------------------------------------------------------------------------
(* Keys the program does not know.                                         *)

\* C27: the top-level keys of the persisted document that the program does
\* not know stay as they were: after any turns, corrections, remembered
\* facts, clearings and saves, each is in the saved document with the value
\* it had.
ForeignKeysPreserved ==
    /\ disk.extra = ForeignKeys
    /\ knowledge.extra = ForeignKeys

\* An answer was taught, the memory was cleared and a fact remembered since:
\* the file has the fact and still the keys it came with.
ForeignKeysSurviveClearing ==
    /\ disk.statistics.corrections_received >= 1
    /\ ~qna_has(disk.qna, lower(U_python_q))
    /\ disk.learned_facts # NoDict
    /\ disk.extra = ForeignKeys

----------------------------------------------------------------------------
(* The counters.                                                           *)

\* The sum of one counter over all profiles of a document.
RECURSIVE SumOverProfiles(_, _, _)
SumOverProfiles(k, field, users) ==
    IF users = {} THEN 0
    ELSE LET u == CHOOSE x \in users : TRUE
         IN  k.user_profiles[u][field] + SumOverProfiles(k, field, users \ {u})

ProfileSum(k, field) == SumOverProfiles(k, field, DOMAIN k.user_profiles)

\* C28: from the default document on, after any turns of any users,
\* statistics.total_messages is the sum of total_messages over the profiles.
MessagesAddUp ==
    knowledge.statistics.total_messages = ProfileSum(knowledge, "total_messages")

\* Two users have taken turns, one of them twice.
TwoUsersThreeMessages ==
    /\ knowledge.statistics.total_messages = 3
    /\ MessagesIn(knowledge, 1) = 2
    /\ MessagesIn(knowledge, 2) = 1

\* C29: from the default document on, statistics.learned_qna equals
\* statistics.corrections_received and the sum of learned_contributions
\* over the profiles in every state; the three only grow, a correction that
\* overwrites a stored question counts too, and clearing the memory takes
\* nothing from them.
LearningCountersAgree ==
    /\ [](/\ knowledge.statistics.learned_qna =
               knowledge.statistics.corrections_received
          /\ knowledge.statistics.learned_qna =
               ProfileSum(knowledge, "learned_contributions"))
    /\ [][ /\ knowledge'.statistics.learned_qna >= knowledge.statistics.learned_qna
           /\ \A u \in DOMAIN knowledge.user_profiles :
                 /\ u \in DOMAIN knowledge'.user_profiles
                 /\ knowledge'.user_profiles[u].learned_contributions >=
                       knowledge.user_profiles[u].learned_contributions
           /\ (last' # last /\ last'.stage = "correction") =>
                 knowledge'.statistics.learned_qna =
                    knowledge.statistics.learned_qna + 1 ]_vars

\* Two corrections were stored and the memory cleared: two answers count as
\* learned and no question is stored.
LearnedCountOutlivesClearing ==
    /\ knowledge.statistics.learned_qna = 2
    /\ knowledge.statistics.corrections_received = 2
    /\ knowledge.qna = <<>>

----------------------------------------------------------------------------
(* Learned answers.                                                        *)

\* The turn recorded in last is an ordinary one whose utterance, in lower
\* case, is a stored question with an answer, and no rule matches it: the
\* state of an utterance that was met with a teach-me prompt and then taught.
AsksTaughtQuestion ==
    /\ last.user # 0
    /\ ~last.is_correction
    /\ ~RuleApplies(last.message)
    /\ qna_has(last.before.qna, lower(last.message))
    /\ qna_get(last.before.qna, lower(last.message)) # Empty

\* C30: a learned answer is served. Once an utterance Q was met with a
\* teach-me prompt and the correction stored an answer A that is not empty,
\* every later ordinary turn whose utterance is Q up to letter case returns
\* A without asking for a follow-up, until the memory is cleared or Q is
\* corrected again.
LearnedAnswerServed ==
    AsksTaughtQuestion =>
        /\ last.outcome.response.tpl = "verbatim"
        /\ last.outcome.response.text = qna_get(last.before.qna, lower(last.message))
        /\ ~last.outcome.needs_followup
        /\ last.outcome.action = "None"

\* The capitalised utterance that was taught is asked again and gets the
\* taught answer.
TaughtAnswerReturned ==
    /\ AsksTaughtQuestion
    /\ last.message = U_xyz
    /\ last.message # lower(U_xyz)
    /\ last.before.statistics.learned_qna >= 1
    /\ last.outcome.response.text = U_parizh

----------------------------------------------------------------------------
(* The dialog of the front end.                                            *)

\* The chat's state is one of the two follow-up states.
InFollowup(chat) == fsm[chat].state \in FollowupStates

\* C31: the follow-up dialog of a chat. AWAITING_CORRECTION is entered only
\* after a teach-me outcome and holds its pending question; the next text
\* message that is not a command, received in AWAITING_CORRECTION or in
\* AWAITING_WEATHER_CITY, is taken as the answer or as the city and returns
\* the chat to no state, so that a follow-up state never serves more than
\* one such message; AWAITING_REMEMBER and IN_CONVERSATION are never entered.
FollowupServesOneMessage ==
    /\ \A chat \in Users : consumed[chat] <= 1
    /\ \A chat \in Users :
          fsm[chat].state = "AWAITING_CORRECTION" =>
              /\ fsm[chat].data.kind = "question"
              /\ fsm[chat].data.question # Empty
    /\ \A chat \in Users :
          fsm[chat].state \notin {"AWAITING_REMEMBER", "IN_CONVERSATION"}

\* The states a chat is ever in are the default one and the two follow-up
\* states, and a chat waiting for a correction holds the question asked.
DialogStatesEntered ==
    \A chat \in Users :
        /\ fsm[chat].state \in {"None"} \cup FollowupStates
        /\ fsm[chat].state = "AWAITING_CORRECTION" =>
              /\ fsm[chat].data.kind = "question"
              /\ fsm[chat].data.question # Empty

\* Only handle_message, resumed after a teach-me outcome, puts a chat into
\* AWAITING_CORRECTION, and with that outcome's question.
CorrectionStateSetByTeachMe ==
    [][\A chat \in Users :
          (fsm'[chat] # fsm[chat] /\ fsm'[chat].state = "AWAITING_CORRECTION") =>
              /\ dialog_log'.kind = "resume"
              /\ dialog_log'.what = "handle_message"
              /\ dialog_log'.chat = chat
              /\ dialog_log'.pending.present
              /\ dialog_log'.pending.question = dialog_log'.text
              /\ fsm'[chat].data = QuestionContext(dialog_log'.pending.question)]_vars

\* A handler that ran alone on a text that is not blank ended the follow-up:
\* the text was routed to the handler of a follow-up state, no other handler
\* of the chat was suspended, and the handler has resumed.
LoneReplyEndsFollowup ==
    (/\ dialog_log.kind = "resume"
     /\ dialog_log.what \in {"handle_weather_city", "handle_correction"}
     /\ \A i \in TaskIds : handlers[i].chat # dialog_log.chat)
        => fsm[dialog_log.chat] = NoState

\* The button that was pressed in the step.
Pressed(data) == dialog_log'.kind = "callback" /\ dialog_log'.what = data

\* C32: a confirmed clearing of the memory empties qna (the seed questions
\* too), learned_facts and interaction_stats, writes the document, and leaves
\* facts, statistics, user_profiles and the weather cache as they were; a
\* declined clearing changes nothing.
ConfirmedClearEffect ==
    [][/\ Pressed("clear_yes") =>
            /\ knowledge'.qna = <<>>
            /\ knowledge'.learned_facts = NoDict
            /\ knowledge'.interaction_stats = NoDict
            /\ disk' = knowledge'
            /\ knowledge'.facts = knowledge.facts
            /\ knowledge'.statistics = knowledge.statistics
            /\ knowledge'.user_profiles = knowledge.user_profiles
            /\ weather_cache' = weather_cache
       /\ Pressed("clear_no") =>
            UNCHANGED <<knowledge, disk, weather_cache, auto_correction, fsm>>]_vars

\* The memory was cleared after something had been learned beyond the seed
\* questions, in a document that has a profile and counted a message.
ClearedAfterLearning ==
    /\ dialog_log.kind = "callback"
    /\ dialog_log.what = "clear_yes"
    /\ dialog_log.size > Len(seed_qna)
    /\ Entries(knowledge) = 0
    /\ disk = knowledge
    /\ DOMAIN knowledge.user_profiles # {}
    /\ knowledge.statistics.total_messages >= 1

====
